---------------------------- MODULE Spec2Model ----------------------------
(***************************************************************************)
(* Defect decomposition and classification pipeline (Nik-Maltcev/a101).    *)
(*                                                                         *)
(* Strings are sequences of characters.  A character is a one-letter       *)
(* string; a Cyrillic letter is written "cyr_x" (lowercase) or "CYR_X"     *)
(* (uppercase), x being its transliteration, since the module text is      *)
(* ASCII.  Python's None is the one-element sequence None, which is not a  *)
(* string of the alphabet.                                                 *)
(***************************************************************************)
EXTENDS Integers, Sequences, FiniteSets, TLC

VARIABLES
    split_cache,     \* SplitService._cache: hash -> list of defect texts
    sb,              \* the frame of the running, or the last, split_batch call
    classify_cache,  \* ClassifyService._cache: hash -> (category, confidence)
    cat_index,       \* CategoryIndex: _categories, _index_built
    cb,              \* the frame of the running ClassifyService.classify_batch call
    heap,            \* the dict objects: reference -> ordered mapping
    ex,              \* the frame of an expand_rows call
    lc,              \* the frame of a call of one of LLMClient's parsers
    jobs_storage,    \* the record of the job
    run,             \* the frame of the run that processes the job
    http,            \* the last response of an endpoint
    result_file,     \* the result file of the job: absent, partial or written
    category_index,  \* a CategoryIndex: _categories, _file_mtime, _index_built
    source,          \* the categories file at the path of the CategoryIndex
    ixc,             \* the frame of a call of a method of the CategoryIndex
    cd,              \* the frame of a call of _clean_defect_text
    split_service    \* the attributes of the SplitService that its constructor sets

vars == <<split_cache, sb, classify_cache, cat_index, cb, heap, ex, lc, jobs_storage, run,
          http, result_file, category_index, source, ixc, cd, split_service>>
split_vars == <<split_cache, sb>>
classify_vars == <<classify_cache, cat_index, cb>>
expand_vars == <<heap, ex>>
client_vars == <<lc>>
job_vars == <<jobs_storage, run, http, result_file>>
index_vars == <<category_index, source, ixc>>
clean_vars == <<cd>>
service_vars == <<split_service>>

(***************************************************************************)
(* Characters and the str methods the code uses                            *)
(***************************************************************************)
None == <<"None">>

Digits == {"0", "1", "2", "3", "4", "5", "6", "7", "8", "9"}

\* what \s matches and str.strip() removes
WS == {" ", "\n", "\t"}

LatUpperSeq ==
    <<"A", "B", "C", "D", "E", "F", "G", "H", "I", "J", "K", "L", "M",
      "N", "O", "P", "Q", "R", "S", "T", "U", "V", "W", "X", "Y", "Z">>

LatLowerSeq ==
    <<"a", "b", "c", "d", "e", "f", "g", "h", "i", "j", "k", "l", "m",
      "n", "o", "p", "q", "r", "s", "t", "u", "v", "w", "x", "y", "z">>

\* А Б В Г Д Е Ё Ж З И Й К Л М Н О П Р С Т У Ф Х Ц Ч Ш Щ Ъ Ы Ь Э Ю Я
CyrUpperSeq ==
    <<"CYR_A", "CYR_B", "CYR_V", "CYR_G", "CYR_D", "CYR_E", "CYR_YO", "CYR_ZH",
      "CYR_Z", "CYR_I", "CYR_J", "CYR_K", "CYR_L", "CYR_M", "CYR_N", "CYR_O",
      "CYR_P", "CYR_R", "CYR_S", "CYR_T", "CYR_U", "CYR_F", "CYR_H", "CYR_C",
      "CYR_CH", "CYR_SH", "CYR_SCH", "CYR_HARD", "CYR_Y", "CYR_SOFT", "CYR_EH",
      "CYR_YU", "CYR_YA">>

CyrLowerSeq ==
    <<"cyr_a", "cyr_b", "cyr_v", "cyr_g", "cyr_d", "cyr_e", "cyr_yo", "cyr_zh",
      "cyr_z", "cyr_i", "cyr_j", "cyr_k", "cyr_l", "cyr_m", "cyr_n", "cyr_o",
      "cyr_p", "cyr_r", "cyr_s", "cyr_t", "cyr_u", "cyr_f", "cyr_h", "cyr_c",
      "cyr_ch", "cyr_sh", "cyr_sch", "cyr_hard", "cyr_y", "cyr_soft", "cyr_eh",
      "cyr_yu", "cyr_ya">>

Range(f) == {f[i] : i \in DOMAIN f}

LatUpper == Range(LatUpperSeq)
LatLower == Range(LatLowerSeq)
CyrUpper == Range(CyrUpperSeq)
CyrLower == Range(CyrLowerSeq)

UpperSeq == LatUpperSeq \o CyrUpperSeq
LowerSeq == LatLowerSeq \o CyrLowerSeq

\* the lowercase of each uppercase letter, and the reverse
LowerOf ==
    [c \in Range(UpperSeq) |-> LowerSeq[CHOOSE i \in DOMAIN UpperSeq : UpperSeq[i] = c]]

UpperOf ==
    [c \in Range(LowerSeq) |-> UpperSeq[CHOOSE i \in DOMAIN LowerSeq : LowerSeq[i] = c]]

\* str.lower() / re.IGNORECASE on one character
LowerChar(c) == IF c \in DOMAIN LowerOf THEN LowerOf[c] ELSE c

\* str.upper() on one character
UpperChar(c) == IF c \in DOMAIN UpperOf THEN UpperOf[c] ELSE c

Lower(s) == [i \in 1..Len(s) |-> LowerChar(s[i])]
Upper(s) == [i \in 1..Len(s) |-> UpperChar(s[i])]

\* Python truthiness of an Optional[str]: None and "" are falsy
Falsy(s) == s = None \/ s = <<>>

\* s[i:] with a 1-based i
From(s, i) == SubSeq(s, i, Len(s))

\* the characters of s from position i on that lie in set cs: how far a greedy
\* cs* run at position i reaches (the index after the run)
RunEnd(s, i, cs) ==
    IF \A j \in i..Len(s) : s[j] \in cs
    THEN Len(s) + 1
    ELSE CHOOSE j \in i..Len(s) : s[j] \notin cs /\ \A k \in i..(j - 1) : s[k] \in cs

\* the index before a run of cs characters that ends s
RunStart(s, cs) ==
    IF \A j \in 1..Len(s) : s[j] \in cs
    THEN 0
    ELSE CHOOSE j \in 1..Len(s) : s[j] \notin cs /\ \A k \in (j + 1)..Len(s) : s[k] \in cs

\* str.strip(chars)
StripChars(s, cs) == SubSeq(s, RunEnd(s, 1, cs), RunStart(s, cs))

\* str.strip()
Strip(s) == StripChars(s, WS)

\* str.isdigit()
IsDigitStr(s) == Len(s) > 0 /\ \A i \in 1..Len(s) : s[i] \in Digits

\* s starts with w at position i
HasAt(s, i, w) ==
    /\ i >= 1
    /\ i + Len(w) - 1 <= Len(s)
    /\ \A k \in 1..Len(w) : s[i + k - 1] = w[k]

RECURSIVE SplitOn(_, _)
\* str.split(sep) for a one-character sep
SplitOn(s, sep) ==
    IF \A i \in 1..Len(s) : s[i] # sep
    THEN <<s>>
    ELSE LET p == CHOOSE i \in 1..Len(s) : s[i] = sep /\ \A k \in 1..(i - 1) : s[k] # sep
         IN  <<SubSeq(s, 1, p - 1)>> \o SplitOn(From(s, p + 1), sep)

RECURSIVE Join(_, _)
\* sep.join(parts)
Join(parts, sep) ==
    IF Len(parts) = 0 THEN <<>>
    ELSE IF Len(parts) = 1 THEN parts[1]
    ELSE parts[1] \o sep \o Join(Tail(parts), sep)

(***************************************************************************)
(* SplitService: the text functions (src/app/services/split_service.py)   *)
(***************************************************************************)
\* the literal words of NO_DEFECTS_PATTERNS, in lowercase
w_net == <<"cyr_n", "cyr_e", "cyr_t">>
w_bez == <<"cyr_b", "cyr_e", "cyr_z">>
w_zamechanij ==
    <<"cyr_z", "cyr_a", "cyr_m", "cyr_e", "cyr_ch", "cyr_a", "cyr_n", "cyr_i", "cyr_j">>
w_zamechaniya ==
    <<"cyr_z", "cyr_a", "cyr_m", "cyr_e", "cyr_ch", "cyr_a", "cyr_n", "cyr_i", "cyr_ya">>
w_otsutstvuyut ==
    <<"cyr_o", "cyr_t", "cyr_s", "cyr_u", "cyr_t", "cyr_s", "cyr_t", "cyr_v", "cyr_u",
      "cyr_yu", "cyr_t">>

\* the regex  w1 \s+ w2  matches at position i of low, a lowercased text
\* (re.IGNORECASE)
PhraseAt(low, i, w1, w2) ==
    /\ HasAt(low, i, w1)
    /\ \E k \in 1..Len(low) :
          /\ \A j \in (i + Len(w1))..(i + Len(w1) + k - 1) : j <= Len(low) /\ low[j] \in WS
          /\ HasAt(low, i + Len(w1) + k, w2)

\* NO_DEFECTS_PATTERNS joined with "|", re.search over the comment
NoDefectsRegexSearch(s) ==
    \/ \A i \in 1..Len(s) : s[i] \in WS
    \/ LET low == Lower(s)
       IN  \E i \in 1..Len(s) :
              \/ PhraseAt(low, i, w_net, w_zamechanij)
              \/ PhraseAt(low, i, w_bez, w_zamechanij)
              \/ PhraseAt(low, i, w_zamechaniya, w_otsutstvuyut)

\* "if not comment" alone, without the search for the patterns
IsEmptyCommentNoneOnly(comment) == Falsy(comment)

\* SplitService._is_empty_comment
IsEmptyComment(comment) ==
    IF Falsy(comment) THEN TRUE ELSE NoDefectsRegexSearch(comment)

\* SplitService._compute_hash: SHA-256 of the UTF-8 text, taken as collision free
ComputeHash(text) == <<"sha256", text>>

\* the number of digits s starts with
LeadingDigits(s) == RunEnd(s, 1, Digits) - 1

\* the character after the first d characters of s
NextChar(s, d) == IF d + 1 <= Len(s) THEN s[d + 1] ELSE "EOS"

\* letters the lookahead (?=[A-ZА-ЯЁа-яё]) of _clean_defect_text accepts
CleanLookahead == LatUpper \cup CyrUpper \cup CyrLower

\* the if/elif/elif of _clean_defect_text on a text that starts with d digits:
\*   ^\d{1,3}[\.\)]\s*   and   ^\d{1,3}\s+   are removed,
\*   ^\d{1,3}(?=[A-ZА-ЯЁа-яё])  is removed when more than 5 characters remain
StripNumbering(cleaned, d) ==
    IF d \in 1..3 /\ NextChar(cleaned, d) \in {".", ")"}
    THEN From(cleaned, RunEnd(cleaned, d + 2, WS))
    ELSE IF d \in 1..3 /\ NextChar(cleaned, d) \in WS
    THEN From(cleaned, RunEnd(cleaned, d + 1, WS))
    ELSE IF d \in 1..3 /\ NextChar(cleaned, d) \in CleanLookahead
            /\ Len(From(cleaned, d + 1)) > 5
    THEN From(cleaned, d + 1)
    ELSE cleaned

\* re.sub(r'^[\-\*]\s+', '', cleaned)
StripBullet(cleaned) ==
    IF Len(cleaned) >= 2 /\ cleaned[1] \in {"-", "*"} /\ cleaned[2] \in WS
    THEN From(cleaned, RunEnd(cleaned, 2, WS))
    ELSE cleaned

\* SplitService._clean_defect_text
CleanDefectText(text) ==
    IF Falsy(text) THEN <<>>
    ELSE Strip(StripBullet(StripNumbering(Strip(text), LeadingDigits(Strip(text)))))

\* the room words of header_pattern in _local_split_by_numbers, in lowercase:
\* Окно Кухня Комната Балкон Лоджия Санузел Ванная Коридор Прихожая
HeaderWords ==
    { <<"cyr_o", "cyr_k", "cyr_n", "cyr_o">>,
      <<"cyr_k", "cyr_u", "cyr_h", "cyr_n", "cyr_ya">>,
      <<"cyr_k", "cyr_o", "cyr_m", "cyr_n", "cyr_a", "cyr_t", "cyr_a">>,
      <<"cyr_b", "cyr_a", "cyr_l", "cyr_k", "cyr_o", "cyr_n">>,
      <<"cyr_l", "cyr_o", "cyr_d", "cyr_zh", "cyr_i", "cyr_ya">>,
      <<"cyr_s", "cyr_a", "cyr_n", "cyr_u", "cyr_z", "cyr_e", "cyr_l">>,
      <<"cyr_v", "cyr_a", "cyr_n", "cyr_n", "cyr_a", "cyr_ya">>,
      <<"cyr_k", "cyr_o", "cyr_r", "cyr_i", "cyr_d", "cyr_o", "cyr_r">>,
      <<"cyr_p", "cyr_r", "cyr_i", "cyr_h", "cyr_o", "cyr_zh", "cyr_a", "cyr_ya">> }

\* header_pattern.match(line):  ^(Окно|...)\s*\d*  with re.IGNORECASE
HeaderPatternMatch(line) == \E w \in HeaderWords : HasAt(Lower(line), 1, w)

\* the longest line _local_split_by_numbers still takes for a header is one
\* character shorter than this
HeaderMaxLen == 50

\* n digits stand at position j of s
DigitsAt(s, j, n) == j + n - 1 <= Len(s) /\ \A k \in j..(j + n - 1) : s[k] \in Digits

\* number_pattern.match(line):  ^(\d{1,2})([\.\)\s]|(?=[А-ЯЁа-яёA-Za-z]))
NumberPatternMatch(line) ==
    \E n \in 1..2 :
        /\ DigitsAt(line, 1, n)
        /\ n + 1 <= Len(line)
        /\ line[n + 1] \in
              {".", ")"} \cup WS \cup CyrUpper \cup CyrLower \cup LatUpper \cup LatLower

\* "if cleaned: defects.append(cleaned)"
AppendIfAny(defects, cleaned) == IF cleaned # <<>> THEN Append(defects, cleaned) ELSE defects

\* the defect the lines of current_defect make: ' '.join, _clean_defect_text
FlushDefect(defects, current_defect) ==
    IF current_defect = <<>> THEN defects
    ELSE AppendIfAny(defects, CleanDefectText(Join(current_defect, <<" ">>)))

\* one round of the loop of _local_split_by_numbers, on the stripped line;
\* st holds defects and current_defect
LocalSplitStep(line, st) ==
    IF line = <<>> THEN st
    ELSE IF HeaderPatternMatch(line) /\ Len(line) < HeaderMaxLen THEN st
    ELSE IF NumberPatternMatch(line)
    THEN [defects |-> FlushDefect(st.defects, st.current_defect), current_defect |-> <<line>>]
    ELSE IF st.current_defect # <<>>
    THEN [st EXCEPT !.current_defect = Append(@, line)]
    ELSE [st EXCEPT !.defects = AppendIfAny(@, CleanDefectText(line))]

RECURSIVE LocalSplitLoop(_, _)
\* the loop over the lines in _local_split_by_numbers, and the last flush
LocalSplitLoop(lines, st) ==
    IF lines = <<>> THEN FlushDefect(st.defects, st.current_defect)
    ELSE LocalSplitLoop(Tail(lines), LocalSplitStep(Strip(Head(lines)), st))

\* SplitService._local_split_by_numbers
LocalSplitByNumbers(text) ==
    IF Falsy(text) THEN <<>>
    ELSE LocalSplitLoop(SplitOn(Strip(text), "\n"), [defects |-> <<>>, current_defect |-> <<>>])

\* re.search(r'\n\s*\d{1,2}X', comment) for a character class X
NumberedLineSearch(comment, X) ==
    \E i \in 1..Len(comment) :
        /\ comment[i] = "\n"
        /\ \E j \in (i + 1)..Len(comment) :
              /\ \A k \in (i + 1)..(j - 1) : comment[k] \in WS
              /\ \E n \in 1..2 :
                    /\ DigitsAt(comment, j, n)
                    /\ j + n <= Len(comment)
                    /\ comment[j + n] \in X

\* the shortest defect _validate_split_result keeps is one character longer
MinDefectLen == 3

\* [d for d in defects if len(d) > 3 and not d.isdigit()]
RECURSIVE ValidDefects(_)
ValidDefects(defects) ==
    IF defects = <<>> THEN <<>>
    ELSE (IF Len(Head(defects)) > MinDefectLen /\ ~IsDigitStr(Head(defects))
          THEN <<Head(defects)>> ELSE <<>>) \o ValidDefects(Tail(defects))

\* _validate_split_result, local_result being _local_split_by_numbers(comment),
\* which the code works out in the branches that use it
ValidateWithLocal(comment, defects, local_result) ==
    IF defects = <<>>
    THEN IF \/ NumberedLineSearch(comment, {".", ")"} \cup WS)
            \/ NumberedLineSearch(comment, CyrUpper \cup CyrLower)
         THEN local_result
         ELSE defects
    ELSE IF /\ Cardinality(Range(defects)) = 1
            /\ Len(defects) > 1
            /\ local_result # <<>>
            /\ Cardinality(Range(local_result)) > 1
         THEN local_result
         ELSE ValidDefects(defects)

\* SplitService._validate_split_result
ValidateSplitResult(comment, defects) ==
    ValidateWithLocal(comment, defects, LocalSplitByNumbers(comment))

(***************************************************************************)
(* LLMClient: parsing a split response (src/app/services/llm_client.py)   *)
(*                                                                         *)
(* The capability's answer to one request is an API error, a text that     *)
(* cannot be parsed, or a "results" array.  An item of the array is a list *)
(* of strings or null.  Item p of the array is the capability's answer for *)
(* item p of the request: the model keeps that as the history field        *)
(* "answers" next to the item (Pad for an item the parser made up).        *)
(***************************************************************************)
Pad == <<"pad">>
Excess == <<"excess">>

\* a list that is None (results[i] not set, dict.get without a hit)
NoneList == <<None>>

\* the response's items, each with the request item it answers
Tagged(items, batch) ==
    [p \in 1..Len(items) |->
        [item |-> items[p], answers |-> IF p <= Len(batch) THEN batch[p] ELSE Excess]]

\* a short response is not padded
PadTruncateNoPad(results, expected_count, filler) ==
    SubSeq(results, 1, IF Len(results) < expected_count THEN Len(results) ELSE expected_count)

\* a long response is not truncated
PadTruncateNoTruncate(results, expected_count, filler) ==
    [p \in 1..(IF Len(results) > expected_count THEN Len(results) ELSE expected_count) |->
        IF p <= Len(results) THEN results[p] ELSE filler]

\* "while len(results) < expected_count: results.append(filler)" and
\* "results = results[:expected_count]"
PadTruncate(results, expected_count, filler) ==
    [p \in 1..expected_count |-> IF p <= Len(results) THEN results[p] ELSE filler]

\* LLMClient._coerce_split_item, for the items the model draws: null or a list
CoerceSplitItem(item) == IF item = NoneList THEN <<>> ELSE item

RECURSIVE UniqueDefects(_, _)
\* the loop of _parse_split_response that strips the texts and drops the empty
\* and the repeated ones
UniqueDefects(item, unique_defects) ==
    IF item = <<>> THEN unique_defects
    ELSE LET text == Strip(Head(item))
         IN  IF text # <<>> /\ text \notin Range(unique_defects)
             THEN UniqueDefects(Tail(item), Append(unique_defects, text))
             ELSE UniqueDefects(Tail(item), unique_defects)

\* LLMClient._parse_split_response, from data["results"] on
ParseSplitResponse(tagged, expected_count) ==
    LET results == PadTruncate(tagged, expected_count, [item |-> <<>>, answers |-> Pad])
    IN  [p \in 1..Len(results) |->
            [defects |-> UniqueDefects(CoerceSplitItem(results[p].item), <<>>),
             answers |-> results[p].answers]]

(***************************************************************************)
(* The comments split_batch is called with and the capability's answers    *)
(***************************************************************************)
\* the longest list of comments a split_batch call is given
MaxComments == 3

\* "  "
c_blank == <<" ", " ">>

\* "Без\t замечаний"
c_nodef == <<"CYR_B", "cyr_e", "cyr_z", "\t", " ">> \o w_zamechanij

\* "1. Skol\n2) Pyatno"
c_list ==
    <<"1", ".", " ", "S", "k", "o", "l", "\n", "2", ")", " ", "P", "y", "a", "t", "n", "o">>

\* "Treschina"
c_plain == <<"T", "r", "e", "s", "c", "h", "i", "n", "a">>

\* "1. ok\n2) 12"
c_short == <<"1", ".", " ", "o", "k", "\n", "2", ")", " ", "1", "2">>

\* the comments that are numbered lists
NumberedComments == {c_list, c_short}

\* the comments that are null, blank or a "no defects" phrasing
EmptyComments == {None, <<>>, c_blank, c_nodef}

\* the comments split_batch is given in the model
Comments == {None, <<>>, c_blank, c_nodef, c_list, c_plain}

\* the sequences over S of length n or less
SeqsUpTo(S, n) == UNION {[1..k -> S] : k \in 0..n}

CommentLists == SeqsUpTo(Comments, MaxComments)

\* "1. Skol"
d_1_skol == <<"1", ".", " ", "S", "k", "o", "l">>

\* "2. Skol"
d_2_skol == <<"2", ".", " ", "S", "k", "o", "l">>

\* "2) Pyatno "
d_2_pyatno == <<"2", ")", " ", "P", "y", "a", "t", "n", "o", " ">>

\* "12"
d_12 == <<"1", "2">>

\* the items the capability answers with: [], null, a bare number and two
\* defects, the same defect twice under two numbers, a bare number and a defect
RawItems ==
    { <<>>, NoneList, <<d_12, d_1_skol, d_2_pyatno>>, <<d_1_skol, d_2_skol>>, <<d_12, d_1_skol>> }

\* the results arrays the capability may answer a request with: an item for
\* each of the first k request items, or for all of them and one more
ResponsesFor(batch) ==
    SeqsUpTo(RawItems, Len(batch))
        \cup {Append(q, <<d_2_pyatno>>) : q \in [1..Len(batch) -> RawItems]}

(***************************************************************************)
(* SplitService.split_batch                                                *)
(***************************************************************************)
\* settings.SPLIT_BATCH_SIZE, which LLMClient.split_comments reads (30 unless the
\* environment sets it), scaled down
SPLIT_BATCH_SIZE == 2

\* batch_size=None, the default of the constructor's argument
NoArgument == 0

\* SplitService.__init__: "self.batch_size = batch_size or settings.SPLIT_BATCH_SIZE"
SplitServiceNew(batch_size) ==
    [batch_size |-> IF batch_size = NoArgument THEN SPLIT_BATCH_SIZE ELSE batch_size]

\* dict.get(key)
CacheGet(cache, key) == IF key \in DOMAIN cache THEN cache[key] ELSE NoneList

\* cache[key] = value
CachePut(cache, key, value) ==
    [k \in DOMAIN cache \cup {key} |-> IF k = key THEN value ELSE cache[k]]

\* "if cached:" in place of "if cached is not None:"
IsCachedTruthy(cached) == cached # NoneList /\ cached # <<>>

\* "if cached is not None"
IsCached(cached) == cached # NoneList

\* _is_empty_comment of each comment of the model, worked out once
IsEmptyCommentOf == [c \in Comments \cup NumberedComments |-> IsEmptyComment(c)]

\* one round of the first pass of split_batch, cached being
\* _get_from_cache(comment): the results, with None where the capability is
\* needed, comments_to_process, and where each result comes from (history)
FirstPassStep(acc, i, comment, cached) ==
    IF IsEmptyCommentOf[comment]
    THEN [acc EXCEPT !.results = Append(@, <<>>),
                     !.origin = Append(@, [how |-> "empty", of |-> comment, defects |-> <<>>])]
    ELSE IF IsCached(cached)
    THEN [acc EXCEPT !.results = Append(@, cached),
                     !.origin = Append(@, [how |-> "cache", of |-> comment, defects |-> <<>>])]
    ELSE [acc EXCEPT !.results = Append(@, NoneList),
                     !.origin = Append(@, [how |-> "unset", of |-> None, defects |-> <<>>]),
                     !.to_process = Append(@, <<i, comment>>)]

RECURSIVE FirstPass(_, _, _, _)
\* the first pass of split_batch, from index i on
FirstPass(comments, cache, i, acc) ==
    IF i > Len(comments) THEN acc
    ELSE FirstPass(comments, cache, i + 1,
                   FirstPassStep(acc, i, comments[i], CacheGet(cache, ComputeHash(comments[i]))))

\* comments[i:i + batch_size] for a 0-based i
Batch(texts, i, batch_size) ==
    SubSeq(texts, i + 1, IF i + batch_size < Len(texts) THEN i + batch_size ELSE Len(texts))

\* [self._clean_defect_text(d.text) for d in split_result.defects]
CleanAll(defects) == [k \in 1..Len(defects) |-> CleanDefectText(defects[k])]

\* the result split_batch gives entry i of comments_to_process
DefectTextsFor(comment, i, llm_results) ==
    IF i <= Len(llm_results)
    THEN ValidateSplitResult(comment, CleanAll(llm_results[i].defects))
    ELSE LocalSplitByNumbers(comment)

\* where that result comes from (history)
OriginFor(comment, i, llm_results) ==
    IF i <= Len(llm_results)
    THEN [how |-> "llm", of |-> llm_results[i].answers, defects |-> llm_results[i].defects]
    ELSE [how |-> "local", of |-> comment, defects |-> <<>>]

\* "results[original_idx] = defect_texts" and _store_in_cache
StoreResult(acc, original_idx, comment, defect_texts, origin) ==
    [results |-> [acc.results EXCEPT ![original_idx] = defect_texts],
     cache |-> CachePut(acc.cache, ComputeHash(comment), defect_texts),
     origin |-> [acc.origin EXCEPT ![original_idx] = origin]]

RECURSIVE MapBack(_, _, _, _)
\* the loop of split_batch that maps the results back and caches them, from
\* entry i of comments_to_process on; acc holds the results, the cache and the
\* origins
MapBack(to_process, llm_results, i, acc) ==
    IF i > Len(to_process) THEN acc
    ELSE MapBack(to_process, llm_results, i + 1,
                 StoreResult(acc, to_process[i][1], to_process[i][2],
                             DefectTextsFor(to_process[i][2], i, llm_results),
                             OriginFor(to_process[i][2], i, llm_results)))

\* what split_batch keeps once it has returned or raised: its locals are gone
SplitEnd(frame, pc, results, origin, error) ==
    [frame EXCEPT !.pc = pc, !.results = results, !.origin = origin, !.error = error,
                  !.to_process = <<>>, !.all_results = <<>>, !.i = 0]

SplitIdle ==
    [pc |-> "idle", comments |-> <<>>, results |-> <<>>, origin |-> <<>>,
     to_process |-> <<>>, all_results |-> <<>>, i |-> 0, requests |-> <<>>,
     error |-> "", prev |-> [some |-> FALSE, val |-> <<>>]]

\* the texts of comments_to_process
Texts(to_process) == [k \in 1..Len(to_process) |-> to_process[k][2]]

\* the frame of split_batch(comments) after its first pass
SplitFrame(comments, first) ==
    [SplitIdle EXCEPT
        !.comments = comments,
        !.results = first.results,
        !.origin = first.origin,
        !.to_process = first.to_process,
        !.prev = IF sb.pc = "returned"
                 THEN [some |-> TRUE, val |-> sb.results]
                 ELSE [some |-> FALSE, val |-> <<>>]]

\* split_batch after its first pass: it returns, or split_comments sends the
\* first request
SplitStart(frame) ==
    IF frame.to_process = <<>>
    THEN sb' = SplitEnd(frame, "returned", frame.results, frame.origin, "")
    ELSE sb' = [frame EXCEPT !.pc = "await_api",
                             !.requests = <<Batch(Texts(frame.to_process), 0, SPLIT_BATCH_SIZE)>>]

\* split_batch(comments) up to its first await, or to its return when nothing
\* is left for the capability; the caller makes a first call, or makes the call
\* that has just ended once more (prev then holds what that call returned)
SplitBatch(comments) ==
    /\ \/ sb.pc = "idle"
       \/ sb.pc \in {"returned", "raised"} /\ comments = sb.comments
    /\ SplitStart(SplitFrame(comments,
           FirstPass(comments, split_cache, 1,
                     [results |-> <<>>, origin |-> <<>>, to_process |-> <<>>])))
    /\ UNCHANGED <<split_cache, classify_vars, expand_vars, client_vars, job_vars, index_vars, clean_vars, service_vars>>

\* the request in flight
SplitBatchInFlight == Batch(Texts(sb.to_process), sb.i, SPLIT_BATCH_SIZE)

\* split_batch once split_comments has returned llm_results: the results are
\* mapped back and cached, and split_batch returns
SplitReturn(m) ==
    /\ sb' = SplitEnd(sb, "returned", m.results, m.origin, "")
    /\ split_cache' = m.cache

\* the results of each batch are mapped back and cached as the batch returns
SplitAfterBatchCaching(all_results, i) ==
    IF i < Len(sb.to_process)
    THEN /\ sb' = [sb EXCEPT !.all_results = all_results, !.i = i,
                             !.requests = Append(@, Batch(Texts(sb.to_process), i,
                                                          SPLIT_BATCH_SIZE))]
         /\ split_cache' = MapBack(SubSeq(sb.to_process, 1, i), all_results, 1,
                 [results |-> sb.results, cache |-> split_cache, origin |-> sb.origin]).cache
    ELSE SplitReturn(MapBack(sb.to_process, all_results, 1,
             [results |-> sb.results, cache |-> split_cache, origin |-> sb.origin]))

\* split_comments after a batch: the next request, or its return
SplitAfterBatch(all_results, i) ==
    IF i < Len(sb.to_process)
    THEN /\ sb' = [sb EXCEPT !.all_results = all_results, !.i = i,
                             !.requests = Append(@, Batch(Texts(sb.to_process), i,
                                                          SPLIT_BATCH_SIZE))]
         /\ UNCHANGED split_cache
    ELSE SplitReturn(MapBack(sb.to_process, all_results, 1,
             [results |-> sb.results, cache |-> split_cache, origin |-> sb.origin]))

\* the capability answers the request in flight with a results array
SplitApiResults(items) ==
    /\ sb.pc = "await_api"
    /\ SplitAfterBatch(
           sb.all_results \o ParseSplitResponse(Tagged(items, SplitBatchInFlight),
                                                Len(SplitBatchInFlight)),
           sb.i + SPLIT_BATCH_SIZE)
    /\ UNCHANGED <<classify_vars, expand_vars, client_vars, job_vars, index_vars, clean_vars, service_vars>>

\* _call_api raises LLMAPIError: split_comments and split_batch pass it on
SplitApiError ==
    /\ sb.pc = "await_api"
    /\ sb' = SplitEnd(sb, "raised", <<>>, <<>>, "LLMAPIError")
    /\ UNCHANGED <<split_cache, classify_vars, expand_vars, client_vars, job_vars, index_vars, clean_vars, service_vars>>

\* _parse_split_response raises LLMResponseParseError
SplitParseError ==
    /\ sb.pc = "await_api"
    /\ sb' = SplitEnd(sb, "raised", <<>>, <<>>, "LLMResponseParseError")
    /\ UNCHANGED <<split_cache, classify_vars, expand_vars, client_vars, job_vars, index_vars, clean_vars, service_vars>>

\* the caller of split_batch has taken the result, or the exception, and goes on
SplitCallerGoesOn ==
    /\ sb.pc \in {"returned", "raised"}
    /\ sb' = SplitIdle
    /\ UNCHANGED <<split_cache, classify_vars, expand_vars, client_vars, job_vars, index_vars, clean_vars, service_vars>>

\* SplitService.clear_cache, between two calls
SplitClearCache ==
    /\ sb.pc = "idle"
    /\ split_cache' = <<>>
    /\ UNCHANGED <<sb, classify_vars, expand_vars, client_vars, job_vars, index_vars, clean_vars, service_vars>>

(***************************************************************************)
(* CategoryIndex                                                           *)
(***************************************************************************)
\* "Skoly"
cat_skoly == <<"S", "k", "o", "l", "y">>

\* "Pyatna"
cat_pyatna == <<"P", "y", "a", "t", "n", "a">>

\* "Прочее", a category whose name the denylist of classify_batch holds
cat_prochee == <<"CYR_P", "cyr_r", "cyr_o", "cyr_ch", "cyr_e", "cyr_e">>

\* the "Наименование" column of the categories file: no category, or three
CategoryFiles == {<<>>, <<cat_skoly, cat_pyatna, cat_prochee>>}

\* CategoryIndex.__init__
CategoryIndexNew == [categories |-> <<>>, index_built |-> FALSE]

\* CategoryIndex.build_index, file being what load_categories reads
BuildIndex(file) ==
    /\ cb.pc = "idle"
    /\ cat_index' = [categories |-> IF cat_index.categories = <<>> THEN file
                                    ELSE cat_index.categories,
                     index_built |-> TRUE]
    /\ UNCHANGED <<classify_cache, cb, split_vars, expand_vars, client_vars, job_vars, index_vars, clean_vars, service_vars>>

\* s, started r places further on, cyclically
Rotate(s, r) == [k \in 1..Len(s) |-> s[((k - 1 + r) % Len(s)) + 1]]

\* s[:n]
Prefix(s, n) == SubSeq(s, 1, IF n < Len(s) THEN n ELSE Len(s))

\* CategoryIndex.find_top_n for an index that is built and a text that is not
\* blank: the n categories that rank first.  The ranking is rapidfuzz's, a
\* function of the text and the categories; the model takes the categories in
\* their order, started at a place r that goes with the text
FindTopN(categories, n, r) ==
    IF categories = <<>> THEN <<>> ELSE Prefix(Rotate(categories, r), n)

(***************************************************************************)
(* LLMClient: parsing a classify response, and classify_defects            *)
(***************************************************************************)
\* "НЕ ОПРЕДЕЛЕНО"
NE_OPREDELENO ==
    <<"CYR_N", "CYR_E", " ", "CYR_O", "CYR_P", "CYR_R", "CYR_E", "CYR_D", "CYR_E",
      "CYR_L", "CYR_E", "CYR_N", "CYR_O">>

\* an item of the results array without the key "chosen"
NoChosen == <<"no chosen">>

\* item.get("chosen", "НЕ ОПРЕДЕЛЕНО")
ChosenOf(item) == IF item = NoChosen THEN NE_OPREDELENO ELSE item

\* ClassifyResult(chosen=item.get("chosen", "НЕ ОПРЕДЕЛЕНО")): the confidence is
\* the default 0; answers is the request item the result answers (history)
ClassifyResultOf(entry) ==
    [chosen |-> ChosenOf(entry.item), confidence |-> 0, answers |-> entry.answers]

\* "[ClassifyResult(...) for item in results]"
ClassifyResults(results) == [p \in 1..Len(results) |-> ClassifyResultOf(results[p])]

\* LLMClient._parse_classify_response, from data["results"] on
ParseClassifyResponse(tagged, expected_count) ==
    ClassifyResults(PadTruncate(tagged, expected_count,
                                [item |-> NE_OPREDELENO, answers |-> Pad]))

\* settings.CLASSIFY_BATCH_SIZE (50 unless the environment sets it), scaled down
CLASSIFY_BATCH_SIZE == 1

\* CLASSIFY_CONCURRENT_BATCHES (3 in classify_defects), scaled down
CLASSIFY_CONCURRENT_BATCHES == 2

\* len(batches)
NumBatches(n, batch_size) == (n + batch_size - 1) \div batch_size

\* the batch indexes i + j of the tasks of the group that starts at batch i
GroupTasks(i, num_batches) ==
    {b \in 0..(num_batches - 1) : i <= b /\ b < i + CLASSIFY_CONCURRENT_BATCHES}

\* the least number of a set
Min(S) == CHOOSE x \in S : \A y \in S : x <= y

\* the places are counted from the end of the list
PlaceBatchFromEnd(all_results, batch_idx, batch_results) ==
    [k \in 1..Len(all_results) |->
        IF Len(all_results) + 1 - k - batch_idx * CLASSIFY_BATCH_SIZE \in 1..Len(batch_results)
        THEN batch_results[Len(all_results) + 1 - k - batch_idx * CLASSIFY_BATCH_SIZE]
        ELSE all_results[k]]

\* "all_results[start_idx + j] = result" for the results of batch batch_idx;
\* a place past the end of the list is an IndexError, which the model's
\* responses cannot cause
PlaceBatch(all_results, batch_idx, batch_results) ==
    [k \in 1..Len(all_results) |->
        IF k - batch_idx * CLASSIFY_BATCH_SIZE \in 1..Len(batch_results)
        THEN batch_results[k - batch_idx * CLASSIFY_BATCH_SIZE]
        ELSE all_results[k]]

RECURSIVE PlaceResults(_, _, _)
\* "for batch_idx, batch_results in results", results being what gather
\* returns: the tasks' results in the order of the tasks
PlaceResults(all_results, done, tasks) ==
    IF tasks = {} THEN all_results
    ELSE PlaceResults(PlaceBatch(all_results, Min(tasks), done[Min(tasks)]),
                      done, tasks \ {Min(tasks)})

(***************************************************************************)
(* ClassifyService.classify_batch                                          *)
(***************************************************************************)
\* settings.CATEGORY_TOP_N (10 unless the environment sets it), scaled down
CATEGORY_TOP_N == 2

\* " "
d_blank == <<" ">>

\* "Skol"
d_skol == <<"S", "k", "o", "l">>

\* "Potek"
d_potek == <<"P", "o", "t", "e", "k">>

\* the defects that are empty or blank
BlankDefects == {<<>>, d_blank}

\* the defects that are not
TextDefects == {d_skol, d_potek}

\* the defects classify_batch is given in the model
Defects == BlankDefects \cup TextDefects

\* the longest list of defects a classify_batch call is given
MaxDefects == 3

DefectLists == SeqsUpTo(Defects, MaxDefects)

\* "Treschiny", no category of the file
a_invented == <<"T", "r", "e", "s", "c", "h", "i", "n", "y">>

\* " Other"
a_other == <<" ", "O", "t", "h", "e", "r">>

\* the items the capability answers with: each category of the file, an
\* invented category, a non-answer, an item without "chosen"
RawChoices == {cat_skoly, cat_pyatna, cat_prochee, a_invented, a_other, NoChosen}

\* the results arrays the capability may answer a classify request with: an
\* item for each of the first k request items, or for all of them and one more
ClassifyResponsesFor(batch) ==
    SeqsUpTo(RawChoices, Len(batch))
        \cup {Append(q, cat_skoly) : q \in [1..Len(batch) -> RawChoices]}

\* invalid_responses of classify_batch: 'другое', 'прочее', 'иное',
\* 'не подходит', 'нет категории', 'не найдено', 'отсутствует', 'none',
\* 'other' and the empty string
InvalidResponses ==
    { <<"cyr_d", "cyr_r", "cyr_u", "cyr_g", "cyr_o", "cyr_e">>,
      <<"cyr_p", "cyr_r", "cyr_o", "cyr_ch", "cyr_e", "cyr_e">>,
      <<"cyr_i", "cyr_n", "cyr_o", "cyr_e">>,
      <<"cyr_n", "cyr_e", " ", "cyr_p", "cyr_o", "cyr_d", "cyr_h", "cyr_o", "cyr_d",
        "cyr_i", "cyr_t">>,
      <<"cyr_n", "cyr_e", "cyr_t", " ", "cyr_k", "cyr_a", "cyr_t", "cyr_e", "cyr_g",
        "cyr_o", "cyr_r", "cyr_i", "cyr_i">>,
      <<"cyr_n", "cyr_e", " ", "cyr_n", "cyr_a", "cyr_j", "cyr_d", "cyr_e", "cyr_n",
        "cyr_o">>,
      <<"cyr_o", "cyr_t", "cyr_s", "cyr_u", "cyr_t", "cyr_s", "cyr_t", "cyr_v", "cyr_u",
        "cyr_e", "cyr_t">>,
      <<"n", "o", "n", "e">>,
      <<"o", "t", "h", "e", "r">>,
      <<>> }

\* "if not defect or not defect.strip()"
IsBlankDefect(defect) == Falsy(defect) \/ Strip(defect) = <<>>

\* IsBlankDefect of each defect of the model, worked out once
IsBlankDefectOf == [d \in Defects |-> IsBlankDefect(d)]

\* _get_from_cache(defect) is not None
ClassifyIsCached(cache, defect) == ComputeHash(defect) \in DOMAIN cache

\* one round of the first pass of classify_batch, cached being
\* _get_from_cache(defect) when that is not None: the results, with None where
\* the capability is needed, defects_to_process, and where each result comes
\* from (history)
ClassifyFirstPassStep(acc, i, defect, is_cached, cached) ==
    IF IsBlankDefectOf[defect]
    THEN [acc EXCEPT !.results = Append(@, <<NE_OPREDELENO, 0>>),
                     !.origin = Append(@, [how |-> "blank", asked |-> defect,
                                           of |-> defect, offered |-> <<>>,
                                           fallback |-> FALSE])]
    ELSE IF is_cached
    THEN [acc EXCEPT !.results = Append(@, <<cached.category, cached.confidence>>),
                     !.origin = Append(@, [how |-> "cache", asked |-> defect,
                                           of |-> defect, offered |-> cached.offered,
                                           fallback |-> FALSE])]
    ELSE [acc EXCEPT !.results = Append(@, None),
                     !.origin = Append(@, [how |-> "unset", asked |-> None,
                                           of |-> None, offered |-> <<>>,
                                           fallback |-> FALSE]),
                     !.to_process = Append(@, <<i, defect>>)]

RECURSIVE ClassifyFirstPass(_, _, _, _)
\* the first pass of classify_batch, from index i on
ClassifyFirstPass(defects, cache, i, acc) ==
    IF i > Len(defects) THEN acc
    ELSE ClassifyFirstPass(defects, cache, i + 1,
             ClassifyFirstPassStep(acc, i, defects[i], ClassifyIsCached(cache, defects[i]),
                                   CacheGet(cache, ComputeHash(defects[i]))))

\* "if 'НЕ ОПРЕДЕЛЕНО' not in candidates: candidates.append('НЕ ОПРЕДЕЛЕНО')"
WithSentinel(candidates) ==
    IF NE_OPREDELENO \in Range(candidates) THEN candidates
    ELSE Append(candidates, NE_OPREDELENO)

\* where the ranking of the categories starts for each defect of the model
RankStart == [d \in TextDefects |-> IF d = d_skol THEN 0 ELSE 2]

\* defects_with_candidates
DefectsWithCandidates(to_process, categories) ==
    [k \in 1..Len(to_process) |->
        [defect |-> to_process[k][2],
         candidates |-> WithSentinel(FindTopN(categories, CATEGORY_TOP_N,
                                              RankStart[to_process[k][2]]))]]

\* "category_lower in invalid_responses", category_lower being
\* category.lower().strip(), or '' for a category that is empty
IsDenylisted(category) == Strip(Lower(category)) \in InvalidResponses

\* IsDenylisted of each category a ClassifyResult of the model holds, worked
\* out once
IsDenylistedOf == [c \in {ChosenOf(item) : item \in RawChoices} |-> IsDenylisted(c)]

\* a category is invalid only when the denylist holds it
IsInvalidDenylistOnly(category, candidates) == IsDenylistedOf[category]

\* is_invalid of classify_batch
IsInvalid(category, candidates) ==
    \/ IsDenylistedOf[category]
    \/ category \notin Range(candidates)

RECURSIVE ValidCandidates(_)
\* [c for c in candidates if c != "НЕ ОПРЕДЕЛЕНО"]
ValidCandidates(candidates) ==
    IF candidates = <<>> THEN <<>>
    ELSE (IF Head(candidates) # NE_OPREDELENO THEN <<Head(candidates)>> ELSE <<>>)
         \o ValidCandidates(Tail(candidates))

\* min(a, b)
MinOf(a, b) == IF a < b THEN a ELSE b

\* the first n characters of a and b are the same but for their case
CommonPrefix(a, b, n) ==
    /\ Len(a) >= n
    /\ Len(b) >= n
    /\ \A k \in 1..n : LowerChar(a[k]) = LowerChar(b[k])

\* the score of a choice for a query.  The scorers are rapidfuzz's, functions of
\* the two strings with values from 0 to 100; the model's stand-ins tell a match
\* (100) from none (30) by the first three characters for token_set_ratio and by
\* the first one for WRatio
Score(query, choice, scorer) ==
    IF CommonPrefix(query, choice, IF scorer = "WRatio" THEN 1 ELSE 3) THEN 100 ELSE 30

\* the place in choices of the first choice with the best score
BestPlace(query, choices, scorer) ==
    CHOOSE k \in 1..Len(choices) :
        /\ \A j \in 1..Len(choices) : Score(query, choices[j], scorer) <= Score(query, choices[k], scorer)
        /\ \A j \in 1..(k - 1) : Score(query, choices[j], scorer) < Score(query, choices[k], scorer)

\* rapidfuzz.process.extractOne(query, choices, scorer=scorer) for choices that
\* are not empty: the best match and its score
ExtractOne(query, choices, scorer) ==
    <<choices[BestPlace(query, choices, scorer)],
      Score(query, choices[BestPlace(query, choices, scorer)], scorer)>>

\* the fallback of classify_batch among valid_candidates, which is not empty,
\* best_match being extractOne's under token_set_ratio and wratio_match under
\* WRatio
FallbackAmong(valid_candidates, best_match, wratio_match) ==
    IF best_match[2] > 30 THEN <<best_match[1], MinOf(best_match[2], 50)>>
    ELSE IF wratio_match[2] > 30 THEN <<wratio_match[1], MinOf(wratio_match[2], 40)>>
    ELSE <<valid_candidates[1], 20>>

\* the fallback of classify_batch for an invalid category
FallbackOf(defect, valid_candidates) ==
    IF valid_candidates # <<>>
    THEN FallbackAmong(valid_candidates,
                       ExtractOne(defect, valid_candidates, "token_set_ratio"),
                       ExtractOne(defect, valid_candidates, "WRatio"))
    ELSE <<NE_OPREDELENO, 0>>

\* the (category, confidence) classify_batch makes of a ClassifyResult for a
\* defect with these candidates
PairOf(classify_result, defect, candidates) ==
    IF IsInvalid(classify_result.chosen, candidates)
    THEN FallbackOf(defect, ValidCandidates(candidates))
    ELSE <<classify_result.chosen, classify_result.confidence>>

\* the pair classify_batch gives entry i of defects_to_process
PairFor(i, llm_results, with_candidates) ==
    IF i <= Len(llm_results)
    THEN PairOf(llm_results[i], with_candidates[i].defect, with_candidates[i].candidates)
    ELSE <<NE_OPREDELENO, 0>>

\* where the result of entry i comes from (history): the defect whose
\* candidates were offered, the request item the capability's answer is for,
\* the candidates, and whether the answer was found invalid and replaced
ClassifyOriginFor(i, llm_results, with_candidates) ==
    [how |-> "llm",
     asked |-> with_candidates[i].defect,
     of |-> IF i <= Len(llm_results) THEN llm_results[i].answers ELSE Pad,
     offered |-> with_candidates[i].candidates,
     fallback |-> /\ i <= Len(llm_results)
                  /\ IsInvalid(llm_results[i].chosen, with_candidates[i].candidates)]

\* the result is stored at its place in defects_to_process
ResultIndexInLoop(i, original_idx) == i + 1

\* the 1-based place of "results[original_idx] = (category, confidence)" for
\* entry i (from 0) of defects_to_process
ResultIndex(i, original_idx) == original_idx

\* "results[original_idx] = (category, confidence)" and _store_in_cache; the
\* cache entry also holds the candidates the category was chosen among (history)
ClassifyStore(acc, idx, defect, pair, origin) ==
    [results |-> [acc.results EXCEPT ![idx] = pair],
     cache |-> CachePut(acc.cache, ComputeHash(defect),
                        [category |-> pair[1], confidence |-> pair[2],
                         offered |-> origin.offered]),
     origin |-> [acc.origin EXCEPT ![idx] = origin]]

RECURSIVE ClassifyMapBack(_, _, _, _, _)
\* the loop of classify_batch that maps the results back and caches them, from
\* entry i of defects_to_process on
ClassifyMapBack(to_process, llm_results, with_candidates, i, acc) ==
    IF i > Len(to_process) THEN acc
    ELSE ClassifyMapBack(to_process, llm_results, with_candidates, i + 1,
             ClassifyStore(acc, ResultIndex(i - 1, to_process[i][1]), to_process[i][2],
                           PairFor(i, llm_results, with_candidates),
                           ClassifyOriginFor(i, llm_results, with_candidates)))

\* what classify_batch keeps once it has returned or raised: its locals are gone
ClassifyEnd(frame, pc, results, origin, error) ==
    [frame EXCEPT !.pc = pc, !.results = results, !.origin = origin, !.error = error,
                  !.to_process = <<>>, !.with_candidates = <<>>, !.i = 0,
                  !.pending = {}, !.done = <<>>, !.all_results = <<>>,
                  !.completed = <<>>]

\* None in a list of ClassifyResult: a place of all_results that is not set
NoResult == [chosen |-> None, confidence |-> 0, answers |-> None]

\* history of the call of classify_defects that classify_batch made: its
\* argument, the batch indexes in the order in which their tasks were done, and
\* the list it returned
NoLlmCall == [defects_with_candidates |-> <<>>, completed |-> <<>>, all_results |-> <<>>]

\* completed is history: the batch indexes of the tasks that are done, in the
\* order in which they were done
ClassifyIdle ==
    [pc |-> "idle", defects |-> <<>>, results |-> <<>>, origin |-> <<>>,
     to_process |-> <<>>, with_candidates |-> <<>>, i |-> 0, pending |-> {},
     done |-> <<>>, all_results |-> <<>>, error |-> "", completed |-> <<>>,
     llm_call |-> NoLlmCall]

\* the frame of classify_batch(defects) after its first pass
ClassifyFrame(defects, first) ==
    [ClassifyIdle EXCEPT
        !.defects = defects,
        !.results = first.results,
        !.origin = first.origin,
        !.to_process = first.to_process]

\* len(batches) in classify_defects
ClassifyNumBatches(frame) == NumBatches(Len(frame.to_process), CLASSIFY_BATCH_SIZE)

\* classify_batch after its first pass: it returns; or find_top_n raises
\* CategoryIndexError; or classify_defects starts the tasks of its first group
ClassifyStart(frame) ==
    IF frame.to_process = <<>>
    THEN cb' = ClassifyEnd(frame, "returned", frame.results, frame.origin, "")
    ELSE IF ~cat_index.index_built
    THEN cb' = ClassifyEnd(frame, "raised", <<>>, <<>>, "CategoryIndexError")
    ELSE cb' = [frame EXCEPT
                   !.pc = "await_api",
                   !.with_candidates =
                       DefectsWithCandidates(frame.to_process, cat_index.categories),
                   !.pending = GroupTasks(0, ClassifyNumBatches(frame)),
                   !.all_results = [k \in 1..Len(frame.to_process) |-> NoResult]]

\* classify_batch(defects) up to its first await, or to its return when nothing
\* is left for the capability; the caller makes a first call, or makes the call
\* that has just ended once more
ClassifyBatch(defects) ==
    /\ \/ cb.pc = "idle"
       \/ cb.pc \in {"returned", "raised"} /\ defects = cb.defects
    /\ ClassifyStart(ClassifyFrame(defects,
           ClassifyFirstPass(defects, classify_cache, 1,
                             [results |-> <<>>, origin |-> <<>>, to_process |-> <<>>])))
    /\ UNCHANGED <<classify_cache, cat_index, split_vars, expand_vars, client_vars, job_vars, index_vars, clean_vars, service_vars>>

\* the defects of batches[b]
ClassifyBatchTexts(b) ==
    Batch([k \in 1..Len(cb.with_candidates) |-> cb.with_candidates[k].defect],
          b * CLASSIFY_BATCH_SIZE, CLASSIFY_BATCH_SIZE)

\* classify_batch once classify_defects has returned llm_results: the results
\* are mapped back and cached, and classify_batch returns
ClassifyReturn(m, llm_call) ==
    /\ cb' = [ClassifyEnd(cb, "returned", m.results, m.origin, "") EXCEPT
                  !.llm_call = llm_call]
    /\ classify_cache' = m.cache

\* classify_defects once gather has returned the results of a group and they
\* are placed: the tasks of the next group start, or classify_defects returns
ClassifyAfterGroup(all_results, completed) ==
    IF cb.i + CLASSIFY_CONCURRENT_BATCHES < ClassifyNumBatches(cb)
    THEN /\ cb' = [cb EXCEPT
                      !.i = cb.i + CLASSIFY_CONCURRENT_BATCHES,
                      !.pending = GroupTasks(cb.i + CLASSIFY_CONCURRENT_BATCHES,
                                             ClassifyNumBatches(cb)),
                      !.done = <<>>,
                      !.all_results = all_results,
                      !.completed = completed]
         /\ UNCHANGED classify_cache
    ELSE ClassifyReturn(ClassifyMapBack(cb.to_process, all_results, cb.with_candidates, 1,
             [results |-> cb.results, cache |-> classify_cache, origin |-> cb.origin]),
             [defects_with_candidates |-> cb.with_candidates, completed |-> completed,
              all_results |-> all_results])

\* a task of the group is done: gather waits for the others, or returns
ClassifyAfterTask(pending, done, completed) ==
    IF pending # {}
    THEN /\ cb' = [cb EXCEPT !.pending = pending, !.done = done, !.completed = completed]
         /\ UNCHANGED classify_cache
    ELSE ClassifyAfterGroup(PlaceResults(cb.all_results, done, DOMAIN done), completed)

\* the capability answers the request of task b with a results array, in
\* whatever order the requests of the group are answered
ClassifyApiResults(b, items) ==
    /\ cb.pc = "await_api"
    /\ b \in cb.pending
    /\ ClassifyAfterTask(cb.pending \ {b},
           CachePut(cb.done, b,
                    ParseClassifyResponse(Tagged(items, ClassifyBatchTexts(b)),
                                          Len(ClassifyBatchTexts(b)))),
           Append(cb.completed, b))
    /\ UNCHANGED <<cat_index, split_vars, expand_vars, client_vars, job_vars, index_vars, clean_vars, service_vars>>

\* _call_api raises LLMAPIError in a task: gather, classify_defects and
\* classify_batch pass it on
ClassifyApiError ==
    /\ cb.pc = "await_api"
    /\ cb' = ClassifyEnd(cb, "raised", <<>>, <<>>, "LLMAPIError")
    /\ UNCHANGED <<classify_cache, cat_index, split_vars, expand_vars, client_vars, job_vars, index_vars, clean_vars, service_vars>>

\* _parse_classify_response raises LLMResponseParseError in a task
ClassifyParseError ==
    /\ cb.pc = "await_api"
    /\ cb' = ClassifyEnd(cb, "raised", <<>>, <<>>, "LLMResponseParseError")
    /\ UNCHANGED <<classify_cache, cat_index, split_vars, expand_vars, client_vars, job_vars, index_vars, clean_vars, service_vars>>

\* the caller of classify_batch has taken the result, or the exception, and
\* goes on
ClassifyCallerGoesOn ==
    /\ cb.pc \in {"returned", "raised"}
    /\ cb' = ClassifyIdle
    /\ UNCHANGED <<classify_cache, cat_index, split_vars, expand_vars, client_vars, job_vars, index_vars, clean_vars, service_vars>>

\* ClassifyService.clear_cache, between two calls
ClassifyClearCache ==
    /\ cb.pc = "idle"
    /\ classify_cache' = <<>>
    /\ UNCHANGED <<cb, cat_index, split_vars, expand_vars, client_vars, job_vars, index_vars, clean_vars, service_vars>>

(***************************************************************************)
(* expand_service: photo URLs                                              *)
(***************************************************************************)
\* "Дефект"
DEFECT_COLUMN_NAME == <<"CYR_D", "cyr_e", "cyr_f", "cyr_e", "cyr_k", "cyr_t">>

\* "Фото"
PHOTO_COLUMN_NAME == <<"CYR_F", "cyr_o", "cyr_t", "cyr_o">>

\* the literal part of PHOTO_URL_PATTERN: "https://uploads.domyland.com/"
PhotoUrlPrefix ==
    <<"h", "t", "t", "p", "s", ":", "/", "/", "u", "p", "l", "o", "a", "d", "s", ".",
      "d", "o", "m", "y", "l", "a", "n", "d", ".", "c", "o", "m", "/">>

\* the characters that end a URL: the complement of [^\s,;]
UrlStop == WS \cup {",", ";"}

\* how far the greedy [^\s,;]+ reaches from position i (the index after it)
UrlEnd(s, i) ==
    IF \A j \in i..Len(s) : s[j] \notin UrlStop
    THEN Len(s) + 1
    ELSE CHOOSE j \in i..Len(s) : s[j] \in UrlStop /\ \A k \in i..(j - 1) : s[k] \notin UrlStop

\* PHOTO_URL_PATTERN matches at position i: the prefix and at least one more character
PhotoUrlAt(s, i) ==
    /\ HasAt(s, i, PhotoUrlPrefix)
    /\ i + Len(PhotoUrlPrefix) <= Len(s)
    /\ s[i + Len(PhotoUrlPrefix)] \notin UrlStop

\* the index after the match of PHOTO_URL_PATTERN at i, or after s[i] without one
PhotoNext(s, i) == IF PhotoUrlAt(s, i) THEN UrlEnd(s, i + Len(PhotoUrlPrefix)) ELSE i + 1

RECURSIVE PhotoScan(_, _, _, _)
\* PHOTO_URL_PATTERN.findall(text) and PHOTO_URL_PATTERN.sub('', text) in one
\* scan from the left: urls are the matches, rest is the text without them
PhotoScan(text, i, urls, rest) ==
    IF i > Len(text)
    THEN [urls |-> urls, rest |-> rest]
    ELSE PhotoScan(text, PhotoNext(text, i),
                   IF PhotoUrlAt(text, i)
                   THEN Append(urls, SubSeq(text, i, PhotoNext(text, i) - 1))
                   ELSE urls,
                   IF PhotoUrlAt(text, i) THEN rest ELSE Append(rest, text[i]))

\* the index after a match of \s*,\s*,\s* at position i, given where the first
\* run of whitespace ends (a) and where the second one ends (b); 0 without a match
CommaPairEndAt(s, a, b) ==
    IF a <= Len(s) /\ s[a] = "," /\ b <= Len(s) /\ s[b] = ","
    THEN RunEnd(s, b + 1, WS)
    ELSE 0

CommaPairEnd(s, i) ==
    CommaPairEndAt(s, RunEnd(s, i, WS), RunEnd(s, RunEnd(s, i, WS) + 1, WS))

RECURSIVE CollapseCommas(_, _, _)
\* re.sub(r'\s*,\s*,\s*', ', ', s)
CollapseCommas(s, i, out) ==
    IF i > Len(s)
    THEN out
    ELSE CollapseCommas(s,
                        IF CommaPairEnd(s, i) > 0 THEN CommaPairEnd(s, i) ELSE i + 1,
                        IF CommaPairEnd(s, i) > 0
                        THEN out \o <<",", " ">>
                        ELSE Append(out, s[i]))

RECURSIVE CollapseWs(_, _, _)
\* re.sub(r'\s+', ' ', s)
CollapseWs(s, i, out) ==
    IF i > Len(s)
    THEN out
    ELSE CollapseWs(s,
                    IF s[i] \in WS THEN RunEnd(s, i, WS) ELSE i + 1,
                    Append(out, IF s[i] \in WS THEN " " ELSE s[i]))

\* extract_photo_urls once the URLs are found
ExtractFrom(text, found) ==
    IF found.urls = <<>>
    THEN [cleaned_text |-> text, photo_urls |-> <<>>]
    ELSE [cleaned_text |->
              StripChars(CollapseWs(CollapseCommas(found.rest, 1, <<>>), 1, <<>>),
                         {" ", ",", ";"}),
          photo_urls |-> Join(found.urls, <<",", " ">>)]

\* extract_photo_urls(text) -> (cleaned_text, photo_urls)
ExtractPhotoUrls(text) ==
    IF Falsy(text)
    THEN [cleaned_text |-> <<>>, photo_urls |-> <<>>]
    ELSE ExtractFrom(text, PhotoScan(text, 1, <<>>, <<>>))

(***************************************************************************)
(* Rows: a dict is the sequence of its <<key, value>> items in insertion   *)
(* order; a value is a string or None                                      *)
(***************************************************************************)
\* key in d
DictHas(d, key) == \E p \in 1..Len(d) : d[p][1] = key

\* d.get(key, default)
DictGet(d, key, default) ==
    IF DictHas(d, key)
    THEN d[CHOOSE p \in 1..Len(d) : d[p][1] = key][2]
    ELSE default

\* d[key] = value
DictSet(d, key, value) ==
    IF DictHas(d, key)
    THEN [p \in 1..Len(d) |-> IF d[p][1] = key THEN <<key, value>> ELSE d[p]]
    ELSE Append(d, <<key, value>>)

\* "x or ''"
OrEmpty(value) == IF Falsy(value) THEN <<>> ELSE value

VALUESTRING == <<"V", "A", "L", "U", "E", "S", "T", "R", "I", "N", "G">>
VALUETEXT == <<"V", "A", "L", "U", "E", "T", "E", "X", "T">>
(***************************************************************************)
(* expand_rows.  The dicts and lists are objects of the heap, named by     *)
(* their place in it, so that a write through one name is seen through     *)
(* every other name of the same object.                                    *)
(***************************************************************************)
\* the locals of the row loop before the keys are looked at
ScanStart ==
    [photo_urls |-> <<>>, cleaned_value_string |-> None, value_string_key |-> None,
     value_text_key |-> None, value_text_content |-> <<>>]

\* the VALUESTRING branch of the key loop
ScanValueString(key, st, extracted) ==
    [st EXCEPT !.value_string_key = key,
               !.cleaned_value_string = extracted.cleaned_text,
               !.photo_urls = extracted.photo_urls]

\* one round of "for key in row.keys()"
ScanKey(row, key, st) ==
    IF Upper(key) = VALUESTRING
    THEN ScanValueString(key, st, ExtractPhotoUrls(OrEmpty(DictGet(row, key, <<>>))))
    ELSE IF Upper(key) = VALUETEXT
    THEN [st EXCEPT !.value_text_key = key,
                    !.value_text_content = OrEmpty(DictGet(row, key, <<>>))]
    ELSE st

RECURSIVE ScanKeys(_, _, _)
\* "for key in row.keys()" from the p-th key on
ScanKeys(row, p, st) ==
    IF p > Len(row) THEN st ELSE ScanKeys(row, p + 1, ScanKey(row, row[p][1], st))

\* a row without defects is always skipped
RowDefectsNoFallback(heap_, defects, scan) ==
    [skip |-> heap_[defects] = <<>>, heap |-> heap_, defects |-> defects]

\* "if not defects": the list to expand, which is a new list holding the
\* stripped valueText when there are no defects and valueText has text; the row
\* is skipped when valueText is blank too
RowDefects(heap_, defects, scan) ==
    IF heap_[defects] # <<>>
    THEN [skip |-> FALSE, heap |-> heap_, defects |-> defects]
    ELSE IF scan.value_text_content # <<>> /\ Strip(scan.value_text_content) # <<>>
    THEN [skip |-> FALSE,
          heap |-> Append(heap_, <<Strip(scan.value_text_content)>>),
          defects |-> Len(heap_) + 1]
    ELSE [skip |-> TRUE, heap |-> heap_, defects |-> defects]

\* "original_data = row": the row itself under a second name
CopyRowAlias(heap_, row) == [heap |-> heap_, ref |-> row]

\* "original_data = row.copy()": a new dict with the items of row
CopyRow(heap_, row) == [heap |-> Append(heap_, heap_[row]), ref |-> Len(heap_) + 1]

\* every column gets the defect text
ReplaceEveryText(d, defect_text) ==
    [p \in 1..Len(d) |-> <<d[p][1], defect_text>>]

\* "for key in list(original_data.keys()): if key.upper() == 'VALUETEXT': ..."
ReplaceValueText(d, defect_text) ==
    [p \in 1..Len(d) |->
        IF Upper(d[p][1]) = VALUETEXT THEN <<d[p][1], defect_text>> ELSE d[p]]

\* "if value_string_key and cleaned_value_string is not None: ..."
SetValueString(d, scan) ==
    IF ~Falsy(scan.value_string_key) /\ scan.cleaned_value_string # None
    THEN DictSet(d, scan.value_string_key, scan.cleaned_value_string)
    ELSE d

\* the writes to original_data, in the order of the code
FillRow(d, scan, defect_text, defect_column) ==
    DictSet(DictSet(SetValueString(ReplaceValueText(d, defect_text), scan),
                    defect_column, defect_text),
            PHOTO_COLUMN_NAME, scan.photo_urls)

\* the heap after the writes to the dict that copy names
WriteRow(copy, scan, defect_text, defect_column) ==
    [copy.heap EXCEPT ![copy.ref] = FillRow(@, scan, defect_text, defect_column)]

\* ExpandedRow(original_data=..., defect_text=..., category=None).  origin is
\* history: the input row and the place in its defect list the row was made for
ExpandedRowOf(original_data, defect_text, i, k) ==
    [original_data |-> original_data, defect_text |-> defect_text,
     category |-> None, confidence |-> None,
     origin |-> [row |-> i, defect |-> k]]

\* "expanded.insert(0, expanded_row)"
ExpandedPrepend(expanded, expanded_row) == <<expanded_row>> \o expanded

\* "expanded.append(expanded_row)"
ExpandedAppend(expanded, expanded_row) == Append(expanded, expanded_row)

\* one round of "for defect_text in defects"
ExpandDefect(st, copy, scan, defect_text, defect_column, i, k) ==
    [heap |-> WriteRow(copy, scan, defect_text, defect_column),
     expanded |-> ExpandedAppend(st.expanded, ExpandedRowOf(copy.ref, defect_text, i, k))]

RECURSIVE DefectLoop(_, _, _, _, _, _, _)
\* "for defect_text in defects" from the k-th defect on
DefectLoop(st, row, defects, k, scan, defect_column, i) ==
    IF k > Len(st.heap[defects])
    THEN st
    ELSE DefectLoop(ExpandDefect(st, CopyRow(st.heap, row), scan, st.heap[defects][k],
                                 defect_column, i, k),
                    row, defects, k + 1, scan, defect_column, i)

\* the body of the row loop once the list to expand is known
ExpandRow(st, row, row_defects, scan, defect_column, i) ==
    IF row_defects.skip
    THEN st
    ELSE DefectLoop([heap |-> row_defects.heap, expanded |-> st.expanded],
                    row, row_defects.defects, 1, scan, defect_column, i)

\* the body of the row loop once the keys are looked at
ExpandScanned(st, row, defects, scan, defect_column, i) ==
    ExpandRow(st, row, RowDefects(st.heap, defects, scan), scan, defect_column, i)

RECURSIVE RowLoop(_, _, _, _, _)
\* "for row, defects in zip(rows, defects_per_row)" from the i-th pair on
RowLoop(st, rows, defects_per_row, i, defect_column) ==
    IF i > Len(rows)
    THEN st
    ELSE RowLoop(ExpandScanned(st, rows[i], defects_per_row[i],
                               ScanKeys(st.heap[rows[i]], 1, ScanStart), defect_column, i),
                 rows, defects_per_row, i + 1, defect_column)

ExpandResult(st) == [raised |-> FALSE, heap |-> st.heap, expanded |-> st.expanded]

\* the lengths are compared with ">" in place of "!="
ExpandRowsCallShortRows(heap_, rows, defects_per_row, defect_column) ==
    IF Len(rows) > Len(defects_per_row)
    THEN [raised |-> TRUE, heap |-> heap_, expanded |-> <<>>]
    ELSE ExpandResult(RowLoop([heap |-> heap_, expanded |-> <<>>],
                              rows, defects_per_row, 1, defect_column))

\* expand_rows(rows, defects_per_row, defect_column) on the heap heap_
ExpandRowsCall(heap_, rows, defects_per_row, defect_column) ==
    IF Len(rows) # Len(defects_per_row)
    THEN [raised |-> TRUE, heap |-> heap_, expanded |-> <<>>]
    ELSE ExpandResult(RowLoop([heap |-> heap_, expanded |-> <<>>],
                              rows, defects_per_row, 1, defect_column))
(***************************************************************************)
(* The rows and defect lists the callers pass                              *)
(***************************************************************************)
MaxRows == 2

k_ID == <<"I", "D">>
k_valueText == <<"v", "a", "l", "u", "e", "T", "e", "x", "t">>
k_valueString == <<"v", "a", "l", "u", "e", "S", "t", "r", "i", "n", "g">>

\* "КОММЕНТАРИЙ", the comment column of the tests
k_KOMMENTARIJ ==
    <<"CYR_K", "CYR_O", "CYR_M", "CYR_M", "CYR_E", "CYR_N", "CYR_T", "CYR_A", "CYR_R",
      "CYR_I", "CYR_J">>

\* "old text"
t_comment == <<"o", "l", "d", " ", "t", "e", "x", "t">>

\* " Skol\n"
t_padded == <<" ">> \o d_skol \o <<"\n">>

\* "hol"
t_place == <<"h", "o", "l">>

\* "hol, https://uploads.domyland.com/a.jpg, https://uploads.domyland.com/b ;"
t_photos ==
    t_place \o <<",", " ">> \o PhotoUrlPrefix \o <<"a", ".", "j", "p", "g">>
            \o <<",", " ">> \o PhotoUrlPrefix \o <<"b", " ", ";">>

\* {"ID": "1", "КОММЕНТАРИЙ": "old text"}
row_test == << <<k_ID, <<"1">>>>, <<k_KOMMENTARIJ, t_comment>> >>

\* {"ID": "2", "valueString": "hol, https://...", "valueText": "old text"}
row_crm == << <<k_ID, <<"2">>>>, <<k_valueString, t_photos>>, <<k_valueText, t_comment>> >>

\* {"valueString": None, "valueText": " Skol\n"}
row_null == << <<k_valueString, None>>, <<k_valueText, t_padded>> >>

\* {"valueText": "old text", "VALUETEXT": "  ", "Фото": "1", "Дефект": "2"}
row_two ==
    << <<k_valueText, t_comment>>, <<VALUETEXT, c_blank>>,
       <<PHOTO_COLUMN_NAME, <<"1">>>>, <<DEFECT_COLUMN_NAME, <<"2">>>> >>

\* {"ID": "3", "valueString": "hol", "valueText": None}
row_plain == << <<k_ID, <<"3">>>>, <<k_valueString, t_place>>, <<k_valueText, None>> >>

RowPool == {row_test, row_crm, row_null, row_two, row_plain, <<>>}

DefectListPool == {<<>>, <<d_potek>>, <<d_skol, d_potek>>}

RowLists == SeqsUpTo(RowPool, MaxRows)

DefectListLists == SeqsUpTo(DefectListPool, MaxRows)

\* the names a caller gives the defect column: the default and the tests' column
DefectColumns == {DEFECT_COLUMN_NAME, k_KOMMENTARIJ}

(***************************************************************************)
(* Calls of expand_rows                                                    *)
(***************************************************************************)
\* ex.heap0 is history: the heap when expand_rows was called
ExpandIdle ==
    [pc |-> "idle", rows |-> <<>>, defects_per_row |-> <<>>, defect_column |-> <<>>,
     heap0 |-> <<>>, result |-> <<>>, error |-> None]

ExpandEnd(out, rows, defects_per_row, defect_column, heap0) ==
    [pc |-> IF out.raised THEN "raised" ELSE "returned",
     rows |-> rows, defects_per_row |-> defects_per_row, defect_column |-> defect_column,
     heap0 |-> heap0, result |-> out.expanded,
     error |-> IF out.raised THEN <<"ValueError">> ELSE None]

ExpandReturn(out, rows, defects_per_row, defect_column, heap0) ==
    /\ heap' = out.heap
    /\ ex' = ExpandEnd(out, rows, defects_per_row, defect_column, heap0)

ExpandCall(heap0, rows, defects_per_row, defect_column) ==
    ExpandReturn(ExpandRowsCall(heap0, rows, defects_per_row, defect_column),
                 rows, defects_per_row, defect_column, heap0)

\* the caller's dicts and lists as objects: the rows first, then the defect lists
RowRefs(row_values) == [p \in 1..Len(row_values) |-> p]

DefectRefs(row_values, defect_values) ==
    [p \in 1..Len(defect_values) |-> Len(row_values) + p]

\* expand_rows(rows, defects_per_row, defect_column)
ExpandRows(row_values, defect_values, defect_column) ==
    /\ ex.pc = "idle"
    /\ ExpandCall(row_values \o defect_values, RowRefs(row_values),
                  DefectRefs(row_values, defect_values), defect_column)
    /\ UNCHANGED <<split_vars, classify_vars, client_vars, job_vars, index_vars, clean_vars, service_vars>>

\* expand_single_row(row, defects, defect_column)
ExpandSingleRow(row_value, defects_value, defect_column) ==
    /\ ex.pc = "idle"
    /\ ExpandCall(<<row_value, defects_value>>, <<1>>, <<2>>, defect_column)
    /\ UNCHANGED <<split_vars, classify_vars, client_vars, job_vars, index_vars, clean_vars, service_vars>>

\* the caller is done with the rows and their expansion
ExpandCallerGoesOn ==
    /\ ex.pc # "idle"
    /\ ex' = ExpandIdle
    /\ heap' = <<>>
    /\ UNCHANGED <<split_vars, classify_vars, client_vars, job_vars, index_vars, clean_vars, service_vars>>

(***************************************************************************)
(* _extract_json_from_text                                                 *)
(***************************************************************************)
\* three backticks, the markdown fence (a backtick is written "tick")
FenceTicks == <<"tick", "tick", "tick">>

w_json == <<"j", "s", "o", "n">>

\* '{"results":' and '{ "results":'
ResultsKey == <<"{", "\"", "r", "e", "s", "u", "l", "t", "s", "\"", ":">>

ResultsKeySpaced == <<"{", " ", "\"", "r", "e", "s", "u", "l", "t", "s", "\"", ":">>

\* text.find(w) and text.rfind(w) with 1-based places, 0 for -1
Find(text, w) ==
    IF \A i \in 1..Len(text) : ~HasAt(text, i, w)
    THEN 0
    ELSE CHOOSE i \in 1..Len(text) : HasAt(text, i, w) /\ \A j \in 1..(i - 1) : ~HasAt(text, j, w)

RFind(text, w) ==
    IF \A i \in 1..Len(text) : ~HasAt(text, i, w)
    THEN 0
    ELSE CHOOSE i \in 1..Len(text) :
             HasAt(text, i, w) /\ \A j \in (i + 1)..Len(text) : ~HasAt(text, j, w)

\* where "(fence)(?:json)?" ends when it starts at i (the index after it)
AfterFence(text, i) == IF HasAt(text, i + 3, w_json) THEN i + 7 ELSE i + 3

\* the place of the "{" of the group when "(fence)(?:json)?\s*\{" matches at i, else 0
CodeBlockOpenAt(text, i) ==
    IF /\ HasAt(text, i, FenceTicks)
       /\ RunEnd(text, AfterFence(text, i), WS) <= Len(text)
       /\ text[RunEnd(text, AfterFence(text, i), WS)] = "{"
    THEN RunEnd(text, AfterFence(text, i), WS)
    ELSE 0

\* "\}\s*(fence)" matches at b
CodeBlockCloseAt(text, b) ==
    text[b] = "}" /\ HasAt(text, RunEnd(text, b + 1, WS), FenceTicks)

\* the places where the group opened at a can end
CodeBlockCloses(text, a) == {b \in (a + 1)..Len(text) : CodeBlockCloseAt(text, b)}

\* the places where the whole pattern matches
CodeBlockStarts(text) ==
    {i \in 1..Len(text) :
        CodeBlockOpenAt(text, i) > 0 /\ CodeBlockCloses(text, CodeBlockOpenAt(text, i)) # {}}

Least(S) == CHOOSE p \in S : \A q \in S : p <= q

\* group(1) of the leftmost match, whose ".*?" takes as little as it can
CodeBlockGroup(text, a) == SubSeq(text, a, Least(CodeBlockCloses(text, a)))

RECURSIVE MatchBrace(_, _, _, _, _)
\* "for i in range(results_start, len(text))" from i on: the place of the brace
\* that brings brace_count to 0, or 0 when the loop ends without one
MatchBrace(text, i, brace_count, in_string, escape_next) ==
    IF i > Len(text) THEN 0
    ELSE IF escape_next THEN MatchBrace(text, i + 1, brace_count, in_string, FALSE)
    ELSE IF text[i] = "\\" THEN MatchBrace(text, i + 1, brace_count, in_string, TRUE)
    ELSE IF text[i] = "\"" THEN MatchBrace(text, i + 1, brace_count, ~in_string, FALSE)
    ELSE IF in_string THEN MatchBrace(text, i + 1, brace_count, in_string, FALSE)
    ELSE IF text[i] = "{" THEN MatchBrace(text, i + 1, brace_count + 1, in_string, FALSE)
    ELSE IF text[i] = "}"
    THEN IF brace_count - 1 = 0
         THEN i
         ELSE MatchBrace(text, i + 1, brace_count - 1, in_string, FALSE)
    ELSE MatchBrace(text, i + 1, brace_count, in_string, FALSE)

\* text.rfind('{"results":'), and text.rfind('{ "results":') when that is -1
ResultsStart(text) ==
    IF RFind(text, ResultsKey) # 0 THEN RFind(text, ResultsKey) ELSE RFind(text, ResultsKeySpaced)

\* the fallback takes everything from the first "{" to the last "}"
FirstToLastBrace(text, brace_start, brace_end) ==
    IF brace_start # 0 /\ brace_end # 0 /\ brace_end > brace_start
    THEN SubSeq(text, brace_start, brace_end)
    ELSE text

\* the object with the results array, when the loop finds its closing brace
FromResults(text, results_start, closing) ==
    IF results_start # 0 /\ closing # 0
    THEN SubSeq(text, results_start, closing)
    ELSE FirstToLastBrace(text, Find(text, <<"{">>), RFind(text, <<"}">>))

\* the text after the search for a code block has found nothing
OutsideCodeBlock(text, results_start) ==
    FromResults(text, results_start,
                IF results_start = 0 THEN 0 ELSE MatchBrace(text, results_start, 0, FALSE, FALSE))

\* _extract_json_from_text(text)
ExtractJsonFromText(text) ==
    IF CodeBlockStarts(text) # {}
    THEN CodeBlockGroup(text, CodeBlockOpenAt(text, Least(CodeBlockStarts(text))))
    ELSE OutsideCodeBlock(text, ResultsStart(text))

(***************************************************************************)
(* The texts of the responses                                              *)
(***************************************************************************)
\* the largest number of pieces of a response text
MaxPieces == 3

\* "Hi\n"
p_prose == <<"H", "i", "\n">>

\* '{"a": 1}'
p_obj == <<"{", "\"", "a", "\"", ":", " ", "1", "}">>

\* '{"results": []}'
p_results == ResultsKey \o <<" ", "[", "]", "}">>

\* '{"results": [{"a": "\"}"}]}': an object in the array, whose string has an
\* escaped quote and a brace
p_nested ==
    ResultsKey \o <<" ", "[", "{", "\"", "a", "\"", ":", " ", "\"", "\\", "\"", "}", "\"",
                    "}", "]", "}">>

\* '{"a": "}"}'
p_brace == <<"{", "\"", "a", "\"", ":", " ", "\"", "}", "\"", "}">>

\* the fence with "json\n" after it, and "\n" with the fence after it
p_open == FenceTicks \o w_json \o <<"\n">>

p_close == <<"\n">> \o FenceTicks

Pieces == {p_prose, p_obj, p_results, p_nested, p_brace, p_open, p_close}

RECURSIVE Concat(_)
Concat(pieces) == IF pieces = <<>> THEN <<>> ELSE Head(pieces) \o Concat(Tail(pieces))

ResponseTexts == {Concat(pieces) : pieces \in SeqsUpTo(Pieces, MaxPieces)}

(***************************************************************************)
(* Calls of LLMClient._parse_split_response and _parse_classify_response   *)
(* on the object json.loads makes of a response                            *)
(***************************************************************************)
\* the longest results array of a response, and the largest expected_count
MaxItems == 2

MaxExpected == 2

\* an item of a classify results array that is null, not an object
NullItem == <<"null item">>

\* an item of a classify results array whose "chosen" is null
ChosenNull == <<"chosen null">>

\* the object of a response: one without the key "results", one whose "results"
\* is null, or one whose "results" is the array items
DataAbsent == [kind |-> "absent", items |-> <<>>]

DataNull == [kind |-> "null", items |-> <<>>]

DataList(items) == [kind |-> "list", items |-> items]

SplitData == {DataAbsent, DataNull} \cup {DataList(items) : items \in SeqsUpTo(RawItems, MaxItems)}

ClassifyData ==
    {DataAbsent, DataNull}
        \cup {DataList(items) : items \in SeqsUpTo(RawChoices \cup {NullItem, ChosenNull}, MaxItems)}

\* the names of the places of a results array, which tell where in the
\* response a result comes from (history)
PlaceNames == <<"1", "2", "3", "4", "5", "6", "7", "8", "9">>

Places(n) == [p \in 1..n |-> <<"place", PlaceNames[p]>>]

\* data.get("results", [])
ResultsOf(data) == IF data.kind = "absent" THEN <<>> ELSE data.items

\* "item.get('chosen', ...)" raises AttributeError for an item that is null, and
\* ClassifyResult(chosen=None) raises ValidationError
ClassifyItemRaises(item) == item \in {NullItem, ChosenNull}

\* _parse_split_response(response, expected_count) for a response that holds
\* data: len(None) raises TypeError, which leaves as LLMResponseParseError
ParseSplitCall(data, expected_count) ==
    IF data.kind = "null"
    THEN [raised |-> TRUE, results |-> <<>>]
    ELSE [raised |-> FALSE,
          results |-> ParseSplitResponse(Tagged(ResultsOf(data), Places(expected_count)),
                                         expected_count)]

\* the list comprehension of _parse_classify_response raises on one of the
\* items that are left after the padding and the truncation
ClassifyItemsRaise(results) ==
    \E p \in 1..Len(results) : ClassifyItemRaises(results[p].item)

\* _parse_classify_response(response, expected_count) for a response that
\* holds data
ParseClassifyCall(data, expected_count) ==
    IF data.kind = "null"
    THEN [raised |-> TRUE, results |-> <<>>]
    ELSE IF ClassifyItemsRaise(PadTruncate(Tagged(ResultsOf(data), Places(expected_count)),
                                           expected_count,
                                           [item |-> NE_OPREDELENO, answers |-> Pad]))
    THEN [raised |-> TRUE, results |-> <<>>]
    ELSE [raised |-> FALSE,
          results |-> ParseClassifyResponse(Tagged(ResultsOf(data), Places(expected_count)),
                                            expected_count)]

\* the frame of a call: text and json_str are those of _extract_json_from_text,
\* the other fields those of the parsers
ClientIdle ==
    [pc |-> "idle", fn |-> "", text |-> <<>>, json_str |-> <<>>,
     data |-> DataAbsent, expected_count |-> 0, results |-> <<>>, error |-> None]

ClientEnd(fn, data, expected_count, out) ==
    [pc |-> IF out.raised THEN "raised" ELSE "returned",
     fn |-> fn, text |-> <<>>, json_str |-> <<>>,
     data |-> data, expected_count |-> expected_count, results |-> out.results,
     error |-> IF out.raised THEN <<"LLMResponseParseError">> ELSE None]

\* a call of _parse_split_response
ParseSplit(data, expected_count) ==
    /\ lc.pc = "idle"
    /\ lc' = ClientEnd("_parse_split_response", data, expected_count,
                       ParseSplitCall(data, expected_count))
    /\ UNCHANGED <<split_vars, classify_vars, expand_vars, job_vars, index_vars, clean_vars, service_vars>>

\* a call of _parse_classify_response
ParseClassify(data, expected_count) ==
    /\ lc.pc = "idle"
    /\ lc' = ClientEnd("_parse_classify_response", data, expected_count,
                       ParseClassifyCall(data, expected_count))
    /\ UNCHANGED <<split_vars, classify_vars, expand_vars, job_vars, index_vars, clean_vars, service_vars>>

\* a call of _extract_json_from_text
ExtractJson(text) ==
    /\ lc.pc = "idle"
    /\ lc' = [ClientIdle EXCEPT !.pc = "returned", !.fn = "_extract_json_from_text",
                                !.text = text, !.json_str = ExtractJsonFromText(text)]
    /\ UNCHANGED <<split_vars, classify_vars, expand_vars, job_vars, index_vars, clean_vars, service_vars>>

\* the caller has taken the results, or the exception, and goes on
ClientCallerGoesOn ==
    /\ lc.pc # "idle"
    /\ lc' = ClientIdle
    /\ UNCHANGED <<split_vars, classify_vars, expand_vars, job_vars, index_vars, clean_vars, service_vars>>

(***************************************************************************)
(* Jobs: the record of a job, process_job_async of the API and             *)
(* _process_job_async of the worker, and the endpoints that read the       *)
(* record.  The rows, comments and defects of a run are their numbers.     *)
(***************************************************************************)
\* the largest numbers of rows of an uploaded file and of defects the
\* capability is asked to classify
MaxJobRows == 4

MaxJobDefects == 3

\* str(output_path)
OutputPath == <<"r", ".", "x", "l", "s", "x">>

\* f"/jobs/{job_id}/download"
DownloadUrl == <<"/", "d", "o", "w", "n", "l", "o", "a", "d">>

\* no record under the job id
NoJob == [present |-> FALSE, status |-> "", progress |-> 0, output_file |-> <<>>, error |-> <<>>]

\* save_job(Job(status=PENDING, progress=0, output_file=None, error=None))
SavedJob ==
    [present |-> TRUE, status |-> "pending", progress |-> 0, output_file |-> <<>>,
     error |-> <<>>]

\* the record is updated though the job id is not in the storage
UpdateFields(entry, status, progress, output_file, error) ==
    [entry EXCEPT !.present = TRUE, !.status = status, !.progress = progress,
                  !.output_file = IF output_file # None THEN output_file ELSE @,
                  !.error = IF error # None THEN error ELSE @]

\* update_job_status of the worker: "r.hset(f'job:{job_id}', mapping=updates)"
UpdateRedis(entry, status, progress, output_file, error) ==
    UpdateFields(entry, status, progress, output_file, error)

\* update_job_status of the API: "if job_id not in _jobs_storage: return"
UpdateStorage(entry, status, progress, output_file, error) ==
    IF ~entry.present THEN entry
    ELSE UpdateFields(entry, status, progress, output_file, error)

\* update_job_status(job_id, status, progress, output_file, error) of the host
UpdateJobStatus(host, entry, status, progress, output_file, error) ==
    IF host = "worker"
    THEN UpdateRedis(entry, status, progress, output_file, error)
    ELSE UpdateStorage(entry, status, progress, output_file, error)

\* the value of a field of an ExpandedRow, or of a cell, with its Python type
NoneValue == [type |-> "NoneType", val |-> <<>>]

StrValue(text) == [type |-> "str", val |-> text]

IntValue(n) == [type |-> "int", val |-> n]

TupleValue(pair) == [type |-> "tuple", val |-> pair]

\* the (category, confidence) pairs classify_batch returns to the run in the
\* model: a category accepted as answered, a fallback match, the sentinel
JobPairs == {<<cat_skoly, 0>>, <<cat_pyatna, 50>>, <<NE_OPREDELENO, 0>>}

\* ExpandedRow(original_data=..., defect_text=..., category=None) of expand_rows
\* for the n-th defect; writes is history: the number of assignments to the
\* fields of the row since
NewExpandedRow(n) ==
    [defect_text |-> n, category |-> NoneValue, confidence |-> NoneValue, writes |-> 0]

\* "expanded_rows[i].category = category", category being the i-th item of the
\* list classify_batch returned
AssignCategory(row, category) ==
    [row EXCEPT !.category = TupleValue(category), !.writes = @ + 1]

\* "for i, category in enumerate(categories): expanded_rows[i].category = category"
AssignCategories(expanded_rows, categories) ==
    [i \in 1..Len(expanded_rows) |->
        IF i <= Len(categories) THEN AssignCategory(expanded_rows[i], categories[i])
        ELSE expanded_rows[i]]

\* "value = expanded_row.category or ''" of _write_rows
CategoryCell(row) ==
    IF row.category.type = "NoneType" \/ (row.category.type = "str" /\ row.category.val = <<>>)
    THEN StrValue(<<>>)
    ELSE row.category

\* sheet.cell(row=..., column=..., value=value) takes a string or a number and
\* raises ValueError for a tuple
CellAccepts(value) == value.type \in {"str", "int"}

\* _write_rows gets through the rows without an exception
RowsWritable(expanded_rows) ==
    \A i \in 1..Len(expanded_rows) : CellAccepts(CategoryCell(expanded_rows[i]))

\* history of a call of the capability that raised: the phase, and the number
\* of batches of the phase whose calls had returned
NoFailedCall == [phase |-> "", done_before |-> 0]

\* the frame of a run.  comments and to_process are the numbers of comments and
\* of defects the capability is asked about; all_results are the batches whose
\* results split_comments holds, and done and placed the batch indexes whose
\* results the tasks of classify_defects have returned and all_results holds;
\* defects_per_row and categories are what split_batch and classify_batch
\* returned to the run, once they are assigned: the batches whose results they
\* are made of, and the pairs; expanded_rows are the rows expand_rows returned.
\* raised (the steps that raised) and failed_call are history.
RunNone ==
    [pc |-> "none", host |-> "", rows |-> 0, comments |-> 0, i |-> 0,
     all_results |-> <<>>, to_process |-> 0, ci |-> 0, pending |-> {}, done |-> {},
     placed |-> {},
     defects_per_row |-> [assigned |-> FALSE, batches |-> <<>>],
     categories |-> [assigned |-> FALSE, batches |-> {}, pairs |-> <<>>],
     expanded_rows |-> <<>>,
     raised |-> <<>>, failed_call |-> NoFailedCall]

\* the text of the error of the record
ErrorText(e) ==
    IF e = "ExcelReaderError"
    THEN <<"Failed to read file: ", e>>
    ELSE <<"Processing failed: ", e>>

\* the handlers swallow the exception and leave the record as it is
OnExceptionSilent(entry, host, e) == entry

\* "except ExcelReaderError as e: ..." and "except Exception as e: ...":
\* update_job_status(job_id, JobStatus.FAILED, error=...)
OnException(entry, host, e) ==
    UpdateJobStatus(host, entry, "failed", 0, None, ErrorText(e))

\* the results the calls held are kept when the exception leaves them
UnwindKeeping(frame, step, e) ==
    [frame EXCEPT !.pc = "close", !.raised = Append(@, step)]

\* the run after an exception in the try block: the locals of the calls it
\* left are gone, and the finally clause is next
Unwind(frame, step, e) ==
    [frame EXCEPT !.pc = "close", !.raised = Append(@, step),
                  !.all_results = <<>>, !.pending = {}, !.done = {}, !.placed = {}]

\* a step of the try block raises e
Raise(step, e) ==
    /\ run' = Unwind(run, step, e)
    /\ jobs_storage' = OnException(jobs_storage, run.host, e)

\* create_job: the record is saved and the run is handed to the background
\* tasks; for the worker, the task is queued with no record yet
CreateJob(host) ==
    /\ run.pc = "none"
    /\ run' = [RunNone EXCEPT !.pc = "queued", !.host = host]
    /\ jobs_storage' = IF host = "worker" THEN NoJob ELSE SavedJob
    /\ UNCHANGED <<http, result_file>>
    /\ UNCHANGED <<split_vars, classify_vars, expand_vars, client_vars, index_vars, clean_vars, service_vars>>

\* the services are made and the index is built, then PENDING 5; LLMClient()
\* or build_index may raise
JobInit(ok) ==
    /\ run.pc = "queued"
    /\ IF ok
       THEN /\ run' = [run EXCEPT !.pc = "read"]
            /\ jobs_storage' = UpdateJobStatus(run.host, jobs_storage, "pending", 5, None, None)
       ELSE Raise("init", "LLMClientError")
    /\ UNCHANGED <<http, result_file>>
    /\ UNCHANGED <<split_vars, classify_vars, expand_vars, client_vars, index_vars, clean_vars, service_vars>>

\* excel_reader.read_file returns rows, of which comments go to the capability,
\* and SPLITTING 10 follows unless there are no rows
JobRead(rows, comments) ==
    /\ run.pc = "read"
    /\ comments <= rows
    /\ run' = [run EXCEPT !.pc = IF rows = 0 THEN "write" ELSE "split",
                          !.rows = rows, !.comments = comments]
    /\ jobs_storage' =
           IF rows = 0 THEN jobs_storage
           ELSE UpdateJobStatus(run.host, jobs_storage, "splitting", 10, None, None)
    /\ UNCHANGED <<http, result_file>>
    /\ UNCHANGED <<split_vars, classify_vars, expand_vars, client_vars, index_vars, clean_vars, service_vars>>

\* excel_reader.read_file raises
JobReadRaises ==
    /\ run.pc = "read"
    /\ Raise("read", "ExcelReaderError")
    /\ UNCHANGED <<http, result_file>>
    /\ UNCHANGED <<split_vars, classify_vars, expand_vars, client_vars, index_vars, clean_vars, service_vars>>

\* split_comments: the call of the capability for the next batch returns and
\* "all_results.extend(batch_results)"
JobSplitBatchDone ==
    /\ run.pc = "split"
    /\ run.i < run.comments
    /\ run' = [run EXCEPT !.all_results = Append(@, run.i \div SPLIT_BATCH_SIZE),
                          !.i = run.i + SPLIT_BATCH_SIZE]
    /\ UNCHANGED <<jobs_storage, http, result_file>>
    /\ UNCHANGED <<split_vars, classify_vars, expand_vars, client_vars, index_vars, clean_vars, service_vars>>

\* the run after split_batch has returned: SPLITTING 40, expand_rows,
\* CLASSIFYING 50, and classify_batch up to the calls of its first group, or
\* CLASSIFYING 90 when no defect goes to the capability
AfterSplit(frame, to_process) ==
    [frame EXCEPT
        !.pc = IF to_process = 0 THEN "write" ELSE "classify",
        !.defects_per_row = [assigned |-> TRUE, batches |-> frame.all_results],
        !.all_results = <<>>,
        !.to_process = to_process,
        !.categories = [assigned |-> to_process = 0, batches |-> {}, pairs |-> <<>>],
        !.expanded_rows = [n \in 1..to_process |-> NewExpandedRow(n)],
        !.pending = GroupTasks(0, NumBatches(to_process, CLASSIFY_BATCH_SIZE))]

\* split_comments is through its batches and split_batch returns
JobSplitReturn(to_process) ==
    /\ run.pc = "split"
    /\ run.i >= run.comments
    /\ run' = AfterSplit(run, to_process)
    /\ jobs_storage' =
           UpdateJobStatus(run.host, jobs_storage, "classifying",
                           IF to_process = 0 THEN 90 ELSE 50, None, None)
    /\ UNCHANGED <<http, result_file>>
    /\ UNCHANGED <<split_vars, classify_vars, expand_vars, client_vars, index_vars, clean_vars, service_vars>>

\* the call of the capability for a batch raises e while split_comments waits
\* for it: split_comments has no handler, nor has split_batch
JobSplitCallRaises(e) ==
    /\ run.pc = "split"
    /\ run.i < run.comments
    /\ run' = [Unwind(run, "split", e) EXCEPT
                  !.failed_call = [phase |-> "split", done_before |-> Len(run.all_results)]]
    /\ jobs_storage' = OnException(jobs_storage, run.host, e)
    /\ UNCHANGED <<http, result_file>>
    /\ UNCHANGED <<split_vars, classify_vars, expand_vars, client_vars, index_vars, clean_vars, service_vars>>

\* classify_defects after gather has returned the results of a group, which
\* are placed: the next group, or classify_batch returns pairs, the rows get
\* them, and CLASSIFYING 90
AfterGroup(frame, placed, pairs) ==
    IF frame.ci + CLASSIFY_CONCURRENT_BATCHES < NumBatches(frame.to_process, CLASSIFY_BATCH_SIZE)
    THEN [frame EXCEPT
             !.ci = frame.ci + CLASSIFY_CONCURRENT_BATCHES,
             !.pending = GroupTasks(frame.ci + CLASSIFY_CONCURRENT_BATCHES,
                                    NumBatches(frame.to_process, CLASSIFY_BATCH_SIZE)),
             !.done = {},
             !.placed = placed]
    ELSE [frame EXCEPT !.pc = "write", !.ci = 0, !.pending = {}, !.done = {},
                       !.placed = {},
                       !.categories = [assigned |-> TRUE, batches |-> placed,
                                       pairs |-> pairs],
                       !.expanded_rows = AssignCategories(@, pairs)]

\* the task of batch b of the group is done; pairs is what classify_batch
\* returns when this was its last task
JobClassifyTaskDone(b, pairs) ==
    /\ run.pc = "classify"
    /\ b \in run.pending
    /\ Len(pairs) = run.to_process
    /\ IF run.pending = {b}
       THEN /\ run' = AfterGroup(run, run.placed \cup run.done \cup {b}, pairs)
            /\ jobs_storage' =
                   IF AfterGroup(run, run.placed \cup run.done \cup {b}, pairs).pc = "write"
                   THEN UpdateJobStatus(run.host, jobs_storage, "classifying", 90, None, None)
                   ELSE jobs_storage
       ELSE /\ run' = [run EXCEPT !.pending = @ \ {b}, !.done = @ \cup {b}]
            /\ UNCHANGED jobs_storage
    /\ UNCHANGED <<http, result_file>>
    /\ UNCHANGED <<split_vars, classify_vars, expand_vars, client_vars, index_vars, clean_vars, service_vars>>

\* the call of the capability of the task of batch b raises e: gather passes
\* it on at once, and classify_defects and classify_batch have no handler
JobClassifyCallRaises(b, e) ==
    /\ run.pc = "classify"
    /\ b \in run.pending
    /\ run' = [Unwind(run, "classify", e) EXCEPT
                  !.failed_call = [phase |-> "classify",
                                   done_before |-> Cardinality(run.placed \cup run.done)]]
    /\ jobs_storage' = OnException(jobs_storage, run.host, e)
    /\ UNCHANGED <<http, result_file>>
    /\ UNCHANGED <<split_vars, classify_vars, expand_vars, client_vars, index_vars, clean_vars, service_vars>>

\* excel_writer.write_result returns with the file written, or raises and
\* leaves a part of the file or none; it raises before the file is saved when
\* a cell does not take the category of a row
JobWrite(outcome) ==
    /\ run.pc = "write"
    /\ ~RowsWritable(run.expanded_rows) => outcome = "absent"
    /\ result_file' = outcome
    /\ IF outcome = "written"
       THEN /\ run' = [run EXCEPT !.pc = "written"]
            /\ UNCHANGED jobs_storage
       ELSE Raise("write", "ExcelWriterError")
    /\ UNCHANGED http
    /\ UNCHANGED <<split_vars, classify_vars, expand_vars, client_vars, index_vars, clean_vars, service_vars>>

\* update_job_status(job_id, JobStatus.COMPLETED, progress=100, output_file=...)
JobCompleted ==
    /\ run.pc = "written"
    /\ run' = [run EXCEPT !.pc = "close"]
    /\ jobs_storage' =
           UpdateJobStatus(run.host, jobs_storage, "completed", 100, OutputPath, None)
    /\ UNCHANGED <<http, result_file>>
    /\ UNCHANGED <<split_vars, classify_vars, expand_vars, client_vars, index_vars, clean_vars, service_vars>>

\* "finally: await llm_client.close()".  When close raises, run_process_job of
\* the API sets FAILED, and the task of the worker fails with the record as it is
JobClose(ok) ==
    /\ run.pc = "close"
    /\ run' = [run EXCEPT !.pc = "ended",
                          !.raised = IF ok THEN @ ELSE Append(@, "close")]
    /\ jobs_storage' =
           IF ok \/ run.host = "worker" THEN jobs_storage
           ELSE UpdateStorage(jobs_storage, "failed", 0, None,
                              <<"Background processing failed: ", "Exception">>)
    /\ UNCHANGED <<http, result_file>>
    /\ UNCHANGED <<split_vars, classify_vars, expand_vars, client_vars, index_vars, clean_vars, service_vars>>

(***************************************************************************)
(* The endpoints of the API                                                *)
(***************************************************************************)
JobIds == {"job", "unknown"}

\* get_job(job_id): None for an id without a record
GetJob(job_id) == IF job_id = "job" THEN jobs_storage ELSE NoJob

\* no request yet; seen is history: the record the endpoint read
HttpNone ==
    [endpoint |-> "", job_id |-> "", code |-> 0, download_url |-> None,
     served |-> FALSE, seen |-> NoJob, file_seen |-> "absent"]

\* GET /jobs/{job_id}
StatusResponse(job) ==
    IF ~job.present
    THEN [code |-> 404, download_url |-> None]
    ELSE [code |-> 200,
          download_url |-> IF job.status = "completed" /\ ~Falsy(job.output_file)
                           THEN DownloadUrl ELSE None]

GetJobStatus(job_id) ==
    /\ run.host = "api"
    /\ http' = [HttpNone EXCEPT !.endpoint = "get_job_status", !.job_id = job_id,
                                !.code = StatusResponse(GetJob(job_id)).code,
                                !.download_url = StatusResponse(GetJob(job_id)).download_url,
                                !.seen = GetJob(job_id), !.file_seen = result_file]
    /\ UNCHANGED <<jobs_storage, run, result_file>>
    /\ UNCHANGED <<split_vars, classify_vars, expand_vars, client_vars, index_vars, clean_vars, service_vars>>

\* the file is served whatever the status of the job is
DownloadCodeAnyStatus(job, file) ==
    IF ~job.present THEN 404
    ELSE IF Falsy(job.output_file) THEN 404
    ELSE IF file = "absent" THEN 404
    ELSE 200

\* GET /jobs/{job_id}/download: the status code of the response
DownloadCode(job, file) ==
    IF ~job.present THEN 404
    ELSE IF job.status # "completed" THEN 400
    ELSE IF Falsy(job.output_file) THEN 404
    ELSE IF file = "absent" THEN 404
    ELSE 200

DownloadResult(job_id) ==
    /\ run.host = "api"
    /\ http' = [HttpNone EXCEPT !.endpoint = "download_result", !.job_id = job_id,
                                !.code = DownloadCode(GetJob(job_id), result_file),
                                !.served = DownloadCode(GetJob(job_id), result_file) = 200,
                                !.seen = GetJob(job_id), !.file_seen = result_file]
    /\ UNCHANGED <<jobs_storage, run, result_file>>
    /\ UNCHANGED <<split_vars, classify_vars, expand_vars, client_vars, index_vars, clean_vars, service_vars>>

\* the result file is removed from the results directory after the run
ResultFileRemoved ==
    /\ run.pc = "ended"
    /\ result_file # "absent"
    /\ result_file' = "absent"
    /\ UNCHANGED <<jobs_storage, run, http>>
    /\ UNCHANGED <<split_vars, classify_vars, expand_vars, client_vars, index_vars, clean_vars, service_vars>>

(***************************************************************************)
(* CategoryIndex with its source: the categories file, its modification    *)
(* time, and load_categories, build_index, check_and_rebuild, find_top_n   *)
(***************************************************************************)
\* the latest modification time of the categories file, and the largest n of
\* find_top_n
MaxMtime == 3

MaxTopN == 4

\* " Pyatna "
cell_padded == <<" ">> \o cat_pyatna \o <<" ">>

\* the cells of the "Наименование" column of the file, below the header
SourceCells ==
    {<<>>,
     <<None, c_blank>>,
     <<cat_skoly, cat_pyatna, cat_prochee>>,
     <<cell_padded, None, cat_skoly>>}

\* no file at the path
NoSource == [exists |-> FALSE, readable |-> FALSE, mtime |-> 0, cells |-> <<>>]

\* the files the path may hold: a workbook with its cells, or a file that
\* load_workbook cannot read
Sources ==
    {NoSource}
        \cup {[exists |-> TRUE, readable |-> TRUE, mtime |-> t, cells |-> cells] :
                 t \in 1..MaxMtime, cells \in SourceCells}
        \cup {[exists |-> TRUE, readable |-> FALSE, mtime |-> t, cells |-> <<>>] :
                 t \in 1..MaxMtime}

\* self._file_mtime = None
NoMtime == -1

\* CategoryIndex.__init__; built_once is history: build_index has returned
IndexNew ==
    [categories |-> <<>>, file_mtime |-> NoMtime, index_built |-> FALSE,
     built_once |-> FALSE]

RECURSIVE CellsToCategories(_, _, _)
\* the loop of load_categories over the rows, from the p-th cell on:
\* "category = str(cell_value).strip(); if category: categories.append(category)"
CellsToCategories(cells, p, categories) ==
    IF p > Len(cells) THEN categories
    ELSE CellsToCategories(cells, p + 1,
             IF cells[p] # None /\ Strip(cells[p]) # <<>>
             THEN Append(categories, Strip(cells[p]))
             ELSE categories)

\* load_categories()
LoadCategories(index, src) ==
    IF ~src.exists
    THEN [raised |-> TRUE, error |-> "CategoryFileNotFoundError", index |-> index]
    ELSE IF ~src.readable
    THEN [raised |-> TRUE, error |-> "CategoryIndexError", index |-> index]
    ELSE [raised |-> FALSE, error |-> "",
          index |-> [index EXCEPT !.categories = CellsToCategories(src.cells, 1, <<>>),
                                  !.file_mtime = src.mtime]]

\* "self._index_built = True" after the call of load_categories, if any
MarkBuilt(loaded) ==
    IF loaded.raised THEN loaded
    ELSE [loaded EXCEPT !.index = [@ EXCEPT !.index_built = TRUE, !.built_once = TRUE]]

\* build_index always loads the categories
BuildIndexAlwaysLoads(index, src) == MarkBuilt(LoadCategories(index, src))

\* build_index(): "if not self._categories: self.load_categories()"
BuildIndexCall(index, src) ==
    IF index.categories = <<>>
    THEN MarkBuilt(LoadCategories(index, src))
    ELSE MarkBuilt([raised |-> FALSE, error |-> "", index |-> index])

\* "self.load_categories(); self.build_index(); return True"
Rebuild(loaded, src) ==
    IF loaded.raised THEN loaded ELSE BuildIndexCall(loaded.index, src)

\* check_and_rebuild(): result is what it returns
CheckAndRebuild(index, src) ==
    IF ~src.exists
    THEN [raised |-> TRUE, error |-> "CategoryFileNotFoundError", index |-> index,
          result |-> FALSE]
    ELSE IF index.file_mtime = NoMtime \/ src.mtime > index.file_mtime
    THEN [raised |-> Rebuild(LoadCategories(index, src), src).raised,
          error |-> Rebuild(LoadCategories(index, src), src).error,
          index |-> Rebuild(LoadCategories(index, src), src).index,
          result |-> ~Rebuild(LoadCategories(index, src), src).raised]
    ELSE [raised |-> FALSE, error |-> "", index |-> index, result |-> FALSE]

\* the place the ranking of a text that is not blank starts at
RankOf(text) == IF Strip(text) \in DOMAIN RankStart THEN RankStart[Strip(text)] ELSE 1

\* every category is returned, whatever n is
FirstNAll(categories, n) == categories

\* "self._categories[:n]" for an n that is not negative
FirstN(categories, n) == Prefix(categories, n)

\* find_top_n(text, n)
FindTopNCall(index, text, n) ==
    IF ~index.index_built
    THEN [raised |-> TRUE, error |-> "CategoryIndexError", result |-> <<>>]
    ELSE IF index.categories = <<>>
    THEN [raised |-> FALSE, error |-> "", result |-> <<>>]
    ELSE IF Falsy(text) \/ Strip(text) = <<>>
    THEN [raised |-> FALSE, error |-> "", result |-> FirstN(index.categories, n)]
    ELSE [raised |-> FALSE, error |-> "",
          result |-> FindTopN(index.categories, n, RankOf(text))]

\* the texts find_top_n is called with
IndexTexts == {<<>>, d_blank, d_skol, d_potek}

\* the frame of a call of a method of the index; before and src are history:
\* the index and the file when the method was called
IndexIdle ==
    [pc |-> "idle", fn |-> "", text |-> <<>>, n |-> 0, result |-> <<>>,
     returned |-> FALSE, error |-> "", before |-> IndexNew, src |-> NoSource]

IndexEnd(fn, out) ==
    [IndexIdle EXCEPT !.pc = IF out.raised THEN "raised" ELSE "returned",
                      !.fn = fn, !.error = out.error,
                      !.before = category_index, !.src = source]

\* the categories file is written, replaced or removed
SourceWritten(src) ==
    /\ ixc.pc = "idle"
    /\ src # source
    /\ source' = src
    /\ UNCHANGED <<category_index, ixc>>
    /\ UNCHANGED <<split_vars, classify_vars, expand_vars, client_vars, job_vars, clean_vars, service_vars>>

LoadCategoriesAct ==
    /\ ixc.pc = "idle"
    /\ category_index' = LoadCategories(category_index, source).index
    /\ ixc' = IndexEnd("load_categories", LoadCategories(category_index, source))
    /\ UNCHANGED source
    /\ UNCHANGED <<split_vars, classify_vars, expand_vars, client_vars, job_vars, clean_vars, service_vars>>

BuildIndexAct ==
    /\ ixc.pc = "idle"
    /\ category_index' = BuildIndexCall(category_index, source).index
    /\ ixc' = IndexEnd("build_index", BuildIndexCall(category_index, source))
    /\ UNCHANGED source
    /\ UNCHANGED <<split_vars, classify_vars, expand_vars, client_vars, job_vars, clean_vars, service_vars>>

CheckAndRebuildAct ==
    /\ ixc.pc = "idle"
    /\ category_index' = CheckAndRebuild(category_index, source).index
    /\ ixc' = [IndexEnd("check_and_rebuild", CheckAndRebuild(category_index, source))
                  EXCEPT !.returned = CheckAndRebuild(category_index, source).result]
    /\ UNCHANGED source
    /\ UNCHANGED <<split_vars, classify_vars, expand_vars, client_vars, job_vars, clean_vars, service_vars>>

FindTopNAct(text, n) ==
    /\ ixc.pc = "idle"
    /\ ixc' = [IndexEnd("find_top_n", FindTopNCall(category_index, text, n))
                  EXCEPT !.text = text, !.n = n,
                         !.result = FindTopNCall(category_index, text, n).result]
    /\ UNCHANGED <<category_index, source>>
    /\ UNCHANGED <<split_vars, classify_vars, expand_vars, client_vars, job_vars, clean_vars, service_vars>>

\* the caller has taken the result, or the exception, and goes on
IndexCallerGoesOn ==
    /\ ixc.pc # "idle"
    /\ ixc' = IndexIdle
    /\ UNCHANGED <<category_index, source>>
    /\ UNCHANGED <<split_vars, classify_vars, expand_vars, client_vars, job_vars, clean_vars, service_vars>>

(***************************************************************************)
(* Calls of _clean_defect_text                                             *)
(***************************************************************************)
\* the numerals, the separators and the words the texts are made of
CleanNumerals == {<<"1">>, <<"1", "2">>, <<"1", "2", "3">>, <<"2", "0", "2", "4">>}

CleanSeparators == {<<>>, <<".">>, <<")">>, <<" ">>, <<".", " ">>, <<")", " ", " ">>}

\* "Defect", "Def", "Year", "nd", "defects", "Царапины", "царапины", "шт"
CleanWords ==
    {<<"D", "e", "f", "e", "c", "t">>,
     <<"D", "e", "f">>,
     <<"Y", "e", "a", "r">>,
     <<"n", "d">>,
     <<"d", "e", "f", "e", "c", "t", "s">>,
     <<"CYR_C", "cyr_a", "cyr_r", "cyr_a", "cyr_p", "cyr_i", "cyr_n", "cyr_y">>,
     <<"cyr_c", "cyr_a", "cyr_r", "cyr_a", "cyr_p", "cyr_i", "cyr_n", "cyr_y">>,
     <<"cyr_sh", "cyr_t">>}

\* what is around the text: nothing or blanks
CleanPads == {<<>>, <<" ", " ">>}

\* numeral, separator and word are history: the parts the text was made of
CleanIdle ==
    [pc |-> "idle", text |-> <<>>, numeral |-> <<>>, separator |-> <<>>, word |-> <<>>,
     result |-> <<>>]

\* SplitService._clean_defect_text(pad + numeral + separator + word + pad)
CleanNumbered(pad, numeral, separator, word) ==
    /\ cd.pc = "idle"
    /\ cd' = [pc |-> "returned", text |-> pad \o numeral \o separator \o word \o pad,
              numeral |-> numeral, separator |-> separator, word |-> word,
              result |-> CleanDefectText(pad \o numeral \o separator \o word \o pad)]
    /\ UNCHANGED <<split_vars, classify_vars, expand_vars, client_vars, job_vars, index_vars, service_vars>>

\* SplitService._clean_defect_text of None, of "" and of a text without a numeral
CleanPlain(text) ==
    /\ cd.pc = "idle"
    /\ cd' = [CleanIdle EXCEPT !.pc = "returned", !.text = text,
                               !.word = IF text = None THEN <<>> ELSE Strip(text),
                               !.result = CleanDefectText(text)]
    /\ UNCHANGED <<split_vars, classify_vars, expand_vars, client_vars, job_vars, index_vars, service_vars>>

\* the caller has taken the cleaned text and goes on
CleanCallerGoesOn ==
    /\ cd.pc # "idle"
    /\ cd' = CleanIdle
    /\ UNCHANGED <<split_vars, classify_vars, expand_vars, client_vars, job_vars, index_vars, service_vars>>

(***************************************************************************)
(* Specification of the SplitService                                       *)
(***************************************************************************)
SplitInit ==
    /\ split_cache = <<>>
    /\ sb = SplitIdle

SplitUnused ==
    /\ classify_cache = <<>>
    /\ cat_index = CategoryIndexNew
    /\ cb = ClassifyIdle
    /\ heap = <<>>
    /\ ex = ExpandIdle
    /\ lc = ClientIdle
    /\ jobs_storage = NoJob
    /\ run = RunNone
    /\ http = HttpNone
    /\ result_file = "absent"
    /\ category_index = IndexNew
    /\ source = NoSource
    /\ ixc = IndexIdle
    /\ cd = CleanIdle

InitSplit == SplitInit /\ split_service = SplitServiceNew(NoArgument) /\ SplitUnused

NextSplit ==
    \/ \E comments \in CommentLists : SplitBatch(comments)
    \/ \E items \in ResponsesFor(SplitBatchInFlight) : SplitApiResults(items)
    \/ SplitApiError
    \/ SplitParseError
    \/ SplitCallerGoesOn
    \/ SplitClearCache

SpecSplit == InitSplit /\ [][NextSplit]_vars

\* split_batch called with numbered lists only, short lines among them
NextSplitNumbered ==
    \/ \E comments \in SeqsUpTo(NumberedComments, MaxComments) : SplitBatch(comments)
    \/ \E items \in ResponsesFor(SplitBatchInFlight) : SplitApiResults(items)
    \/ SplitApiError
    \/ SplitParseError
    \/ SplitCallerGoesOn
    \/ SplitClearCache

SpecSplitNumbered == InitSplit /\ [][NextSplitNumbered]_vars

\* the SplitService is made with any batch_size argument, or with none
BatchSizeArguments == {NoArgument} \cup (1..(SPLIT_BATCH_SIZE + 1))

InitSplitSized ==
    /\ SplitInit
    /\ split_service \in {SplitServiceNew(batch_size) : batch_size \in BatchSizeArguments}
    /\ SplitUnused

SpecSplitSized == InitSplitSized /\ [][NextSplit]_vars

(***************************************************************************)
(* Specification of the ClassifyService                                    *)
(***************************************************************************)
ClassifyInit ==
    /\ classify_cache = <<>>
    /\ cat_index = CategoryIndexNew
    /\ cb = ClassifyIdle

ClassifyUnused ==
    /\ split_cache = <<>>
    /\ sb = SplitIdle
    /\ heap = <<>>
    /\ ex = ExpandIdle
    /\ lc = ClientIdle
    /\ jobs_storage = NoJob
    /\ run = RunNone
    /\ http = HttpNone
    /\ result_file = "absent"
    /\ category_index = IndexNew
    /\ source = NoSource
    /\ ixc = IndexIdle
    /\ cd = CleanIdle
    /\ split_service = SplitServiceNew(NoArgument)

InitClassify == ClassifyInit /\ ClassifyUnused

NextClassify ==
    \/ \E file \in CategoryFiles : BuildIndex(file)
    \/ \E defects \in DefectLists : ClassifyBatch(defects)
    \/ \E b \in cb.pending :
          \E items \in ClassifyResponsesFor(ClassifyBatchTexts(b)) : ClassifyApiResults(b, items)
    \/ ClassifyApiError
    \/ ClassifyParseError
    \/ ClassifyCallerGoesOn
    \/ ClassifyClearCache

SpecClassify == InitClassify /\ [][NextClassify]_vars

(***************************************************************************)
(* Specification of the two services: they share no state, and a behaviour *)
(* uses one of them while the other is as it was made                      *)
(***************************************************************************)
SplitServiceFresh == split_cache = <<>> /\ sb = SplitIdle

ClassifyServiceFresh ==
    /\ classify_cache = <<>>
    /\ cat_index = CategoryIndexNew
    /\ cb = ClassifyIdle

NextServices ==
    \/ ClassifyServiceFresh /\ NextSplitNumbered
    \/ SplitServiceFresh /\ NextClassify

SpecServices == InitSplit /\ [][NextServices]_vars

(***************************************************************************)
(* Specification of the row expansion                                      *)
(***************************************************************************)
ExpandInit ==
    /\ heap = <<>>
    /\ ex = ExpandIdle

ExpandUnused ==
    /\ split_cache = <<>>
    /\ sb = SplitIdle
    /\ classify_cache = <<>>
    /\ cat_index = CategoryIndexNew
    /\ cb = ClassifyIdle
    /\ lc = ClientIdle
    /\ jobs_storage = NoJob
    /\ run = RunNone
    /\ http = HttpNone
    /\ result_file = "absent"
    /\ category_index = IndexNew
    /\ source = NoSource
    /\ ixc = IndexIdle
    /\ cd = CleanIdle
    /\ split_service = SplitServiceNew(NoArgument)

InitExpand == ExpandInit /\ ExpandUnused

NextExpand ==
    \/ \E row_values \in RowLists, defect_values \in DefectListLists,
          defect_column \in DefectColumns :
          ExpandRows(row_values, defect_values, defect_column)
    \/ \E row_value \in RowPool, defects_value \in DefectListPool,
          defect_column \in DefectColumns :
          ExpandSingleRow(row_value, defects_value, defect_column)
    \/ ExpandCallerGoesOn

SpecExpand == InitExpand /\ [][NextExpand]_vars

(***************************************************************************)
(* Specification of the parsers of LLMClient                               *)
(***************************************************************************)
ClientInit == lc = ClientIdle

ClientUnused ==
    /\ split_cache = <<>>
    /\ sb = SplitIdle
    /\ classify_cache = <<>>
    /\ cat_index = CategoryIndexNew
    /\ cb = ClassifyIdle
    /\ heap = <<>>
    /\ ex = ExpandIdle
    /\ jobs_storage = NoJob
    /\ run = RunNone
    /\ http = HttpNone
    /\ result_file = "absent"
    /\ category_index = IndexNew
    /\ source = NoSource
    /\ ixc = IndexIdle
    /\ cd = CleanIdle
    /\ split_service = SplitServiceNew(NoArgument)

InitParse == ClientInit /\ ClientUnused

NextParse ==
    \/ \E data \in SplitData, expected_count \in 0..MaxExpected :
          ParseSplit(data, expected_count)
    \/ \E data \in ClassifyData, expected_count \in 0..MaxExpected :
          ParseClassify(data, expected_count)
    \/ \E text \in ResponseTexts : ExtractJson(text)
    \/ ClientCallerGoesOn

SpecParse == InitParse /\ [][NextParse]_vars

(***************************************************************************)
(* Specification of the jobs                                               *)
(***************************************************************************)
JobsInit ==
    /\ jobs_storage = NoJob
    /\ run = RunNone
    /\ http = HttpNone
    /\ result_file = "absent"

JobsUnused ==
    /\ split_cache = <<>>
    /\ sb = SplitIdle
    /\ classify_cache = <<>>
    /\ cat_index = CategoryIndexNew
    /\ cb = ClassifyIdle
    /\ heap = <<>>
    /\ ex = ExpandIdle
    /\ lc = ClientIdle
    /\ category_index = IndexNew
    /\ source = NoSource
    /\ ixc = IndexIdle
    /\ cd = CleanIdle
    /\ split_service = SplitServiceNew(NoArgument)

InitJobs == JobsInit /\ JobsUnused

CallErrors == {"LLMAPIError", "LLMResponseParseError"}

NextJobs ==
    \/ \E host \in {"api", "worker"} : CreateJob(host)
    \/ \E ok \in BOOLEAN : JobInit(ok)
    \/ \E rows \in 0..MaxJobRows, comments \in 0..MaxJobRows : JobRead(rows, comments)
    \/ JobReadRaises
    \/ JobSplitBatchDone
    \/ \E e \in CallErrors : JobSplitCallRaises(e)
    \/ \E to_process \in 0..MaxJobDefects : JobSplitReturn(to_process)
    \/ \E b \in 0..MaxJobDefects, pairs \in SeqsUpTo(JobPairs, MaxJobDefects) :
          JobClassifyTaskDone(b, pairs)
    \/ \E b \in 0..MaxJobDefects, e \in CallErrors : JobClassifyCallRaises(b, e)
    \/ \E outcome \in {"written", "partial", "absent"} : JobWrite(outcome)
    \/ JobCompleted
    \/ \E ok \in BOOLEAN : JobClose(ok)
    \/ \E job_id \in JobIds : GetJobStatus(job_id)
    \/ \E job_id \in JobIds : DownloadResult(job_id)
    \/ ResultFileRemoved

SpecJobs == InitJobs /\ [][NextJobs]_vars

\* a step of the processing of the job: the event loop runs the coroutine on,
\* and every external step it awaits returns or raises
JobStep ==
    \/ \E ok \in BOOLEAN : JobInit(ok)
    \/ \E rows \in 0..MaxJobRows, comments \in 0..MaxJobRows : JobRead(rows, comments)
    \/ JobReadRaises
    \/ JobSplitBatchDone
    \/ \E e \in CallErrors : JobSplitCallRaises(e)
    \/ \E to_process \in 0..MaxJobDefects : JobSplitReturn(to_process)
    \/ \E b \in 0..MaxJobDefects, pairs \in SeqsUpTo(JobPairs, MaxJobDefects) :
          JobClassifyTaskDone(b, pairs)
    \/ \E b \in 0..MaxJobDefects, e \in CallErrors : JobClassifyCallRaises(b, e)
    \/ \E outcome \in {"written", "partial", "absent"} : JobWrite(outcome)
    \/ JobCompleted
    \/ \E ok \in BOOLEAN : JobClose(ok)

\* the jobs, with a processing that is not left waiting for ever: the
\* background task is run, and no await of process_job_async hangs
SpecJobsFair == SpecJobs /\ WF_vars(JobStep)

(***************************************************************************)
(* Specification of the CategoryIndex with its source                      *)
(***************************************************************************)
IndexInit ==
    /\ category_index = IndexNew
    /\ source = NoSource
    /\ ixc = IndexIdle

IndexUnused ==
    /\ split_cache = <<>>
    /\ sb = SplitIdle
    /\ classify_cache = <<>>
    /\ cat_index = CategoryIndexNew
    /\ cb = ClassifyIdle
    /\ heap = <<>>
    /\ ex = ExpandIdle
    /\ lc = ClientIdle
    /\ jobs_storage = NoJob
    /\ run = RunNone
    /\ http = HttpNone
    /\ result_file = "absent"
    /\ cd = CleanIdle
    /\ split_service = SplitServiceNew(NoArgument)

InitIndex == IndexInit /\ IndexUnused

NextIndex ==
    \/ \E src \in Sources : SourceWritten(src)
    \/ LoadCategoriesAct
    \/ BuildIndexAct
    \/ CheckAndRebuildAct
    \/ \E text \in IndexTexts, n \in 0..MaxTopN : FindTopNAct(text, n)
    \/ IndexCallerGoesOn

SpecIndex == InitIndex /\ [][NextIndex]_vars

(***************************************************************************)
(* Specification of the calls of _clean_defect_text                        *)
(***************************************************************************)
CleanUnused ==
    /\ split_cache = <<>>
    /\ sb = SplitIdle
    /\ classify_cache = <<>>
    /\ cat_index = CategoryIndexNew
    /\ cb = ClassifyIdle
    /\ heap = <<>>
    /\ ex = ExpandIdle
    /\ lc = ClientIdle
    /\ jobs_storage = NoJob
    /\ run = RunNone
    /\ http = HttpNone
    /\ result_file = "absent"
    /\ category_index = IndexNew
    /\ source = NoSource
    /\ ixc = IndexIdle

InitClean == cd = CleanIdle /\ split_service = SplitServiceNew(NoArgument) /\ CleanUnused

NextClean ==
    \/ \E pad \in CleanPads, numeral \in CleanNumerals, separator \in CleanSeparators,
          word \in CleanWords : CleanNumbered(pad, numeral, separator, word)
    \/ \E text \in {None, <<>>} \cup {<<"-", " ">> \o w : w \in CleanWords} \cup CleanWords :
          CleanPlain(text)
    \/ CleanCallerGoesOn

SpecClean == InitClean /\ [][NextClean]_vars

(***************************************************************************)
(* Properties of split_batch                                               *)
(***************************************************************************)
\* C1: whenever split_batch returns, the result has len(comments) entries, none
\* is left unset, and entry i is the defect list of comments[i]: [] for an empty
\* comment, the list the cache holds for comments[i], or what _validate_split_result makes
\* of comments[i] and the item the capability answered comments[i] with (the
\* padding [] when it answered with too few items), whatever the number of items
\* the capability returned.
C1_SplitBatchParallel ==
    sb.pc = "returned" =>
        /\ Len(sb.results) = Len(sb.comments)
        /\ Len(sb.origin) = Len(sb.comments)
        /\ \A i \in 1..Len(sb.comments) :
              LET c == sb.comments[i]
                  o == sb.origin[i]
              IN  /\ sb.results[i] # NoneList
                  /\ o.how \in {"empty", "cache", "llm", "local"}
                  /\ o.how = "empty" => sb.results[i] = <<>> /\ o.of = c
                  /\ o.how = "cache" =>
                        /\ o.of = c
                        /\ ComputeHash(c) \in DOMAIN split_cache
                        /\ sb.results[i] = split_cache[ComputeHash(c)]
                  /\ o.how = "llm" =>
                        /\ o.of \in {c, Pad}
                        /\ o.of = Pad => o.defects = <<>>
                        /\ sb.results[i] = ValidateSplitResult(c, CleanAll(o.defects))
                  /\ o.how = "local" =>
                        /\ o.of = c
                        /\ sb.results[i] = LocalSplitByNumbers(c)

\* C1 witness: split_batch has returned the results of a list that mixes an
\* empty comment, a comment the capability split in two, and a comment whose
\* item the capability left out
C1_Witness ==
    /\ sb.pc = "returned"
    /\ \E i, j, k \in 1..Len(sb.comments) :
          /\ sb.origin[i].how = "empty"
          /\ sb.origin[j].how = "llm"
          /\ sb.origin[j].of = sb.comments[j]
          /\ Len(sb.results[j]) = 2
          /\ sb.origin[k].how = "llm"
          /\ sb.origin[k].of = Pad

\* C4: when split_batch([c]) is called a second time with the same non-empty
\* string c, right after the first call returned, the second call returns the
\* first call's result (an empty defect list included) and makes no request to
\* the capability.
C4_SecondCallFromCache ==
    (sb.prev.some /\ Len(sb.comments) = 1 /\ sb.comments[1] # None /\ sb.comments[1] # <<>>) =>
        /\ sb.pc = "returned"
        /\ sb.results = sb.prev.val
        /\ sb.requests = <<>>

\* C4 witness: the second call has returned the empty defect list the first call
\* got from the capability, out of the cache
C4_Witness ==
    /\ sb.prev.some
    /\ sb.pc = "returned"
    /\ sb.comments = <<c_plain>>
    /\ sb.origin[1].how = "cache"
    /\ sb.results = <<<<>>>>
    /\ sb.requests = <<>>

\* C5: a comment that is null, blank or a "no defects" phrasing gets the result
\* [] and is in no request to the capability; a call whose comments are all of
\* that kind returns without a request.
C5_EmptyCommentsNeverSent ==
    /\ \A r \in 1..Len(sb.requests) : \A p \in 1..Len(sb.requests[r]) :
          sb.requests[r][p] \notin EmptyComments
    /\ sb.pc = "returned" =>
          \A i \in 1..Len(sb.comments) :
              sb.comments[i] \in EmptyComments => sb.results[i] = <<>>
    /\ (sb.pc # "idle" /\ \A i \in 1..Len(sb.comments) : sb.comments[i] \in EmptyComments) =>
          sb.pc = "returned" /\ sb.requests = <<>>

\* C5 witness: a call with a null comment, a "no defects" comment and a comment
\* with defects has returned after one request
C5_Witness ==
    /\ sb.pc = "returned"
    /\ Len(sb.requests) = 1
    /\ \E i, j, k \in 1..Len(sb.comments) :
          /\ sb.comments[i] = None /\ sb.results[i] = <<>>
          /\ sb.comments[j] = c_nodef /\ sb.results[j] = <<>>
          /\ sb.comments[k] = c_list /\ Len(sb.results[k]) = 2
(***************************************************************************)
(* Properties of classify_batch                                            *)
(***************************************************************************)
\* C2: whenever classify_batch returns, the result has len(defects) entries,
\* none is left unset, and entry i is the pair of defects[i]: the sentinel with
\* confidence 0 for a blank defect, the pair the cache holds for defects[i], or
\* a pair made of the candidates of defects[i] and of the item the capability
\* answered defects[i] with (the padding when it answered with too few items),
\* however the defects were divided into batches and in whatever order the
\* batches were answered.
C2_ClassifyBatchParallel ==
    cb.pc = "returned" =>
        /\ Len(cb.results) = Len(cb.defects)
        /\ Len(cb.origin) = Len(cb.defects)
        /\ \A i \in 1..Len(cb.defects) :
              LET d == cb.defects[i]
                  o == cb.origin[i]
              IN  /\ cb.results[i] # None
                  /\ o.how \in {"blank", "cache", "llm"}
                  /\ o.asked = d
                  /\ o.how = "blank" => d \in BlankDefects /\ cb.results[i] = <<NE_OPREDELENO, 0>>
                  /\ o.how = "cache" =>
                        /\ ClassifyIsCached(classify_cache, d)
                        /\ cb.results[i] = <<classify_cache[ComputeHash(d)].category,
                                             classify_cache[ComputeHash(d)].confidence>>
                  /\ o.how = "llm" =>
                        /\ d \in TextDefects
                        /\ o.of \in {d, Pad}
                        /\ o.of = Pad => cb.results[i] = <<NE_OPREDELENO, 0>>
                        /\ o.offered = WithSentinel(FindTopN(cat_index.categories,
                                                             CATEGORY_TOP_N, RankStart[d]))

\* C2 witness: classify_batch has returned the pairs of a list in which a blank
\* defect comes before a defect the capability chose a category for, and which
\* holds a defect whose item the capability left out
C2_Witness ==
    /\ cb.pc = "returned"
    /\ \E i, j, k \in 1..Len(cb.defects) :
          /\ i < j
          /\ cb.origin[i].how = "blank"
          /\ cb.origin[j].how = "llm"
          /\ cb.origin[j].of = cb.defects[j]
          /\ cb.results[j] = <<cat_pyatna, 0>>
          /\ cb.origin[k].how = "llm"
          /\ cb.origin[k].of = Pad

\* C3: in every result of classify_batch the category is one of the candidates
\* that were offered to the capability for that defect, or the sentinel
\* "НЕ ОПРЕДЕЛЕНО", whatever the capability answered; the same holds for every
\* pair the cache holds.
C3_CategoryAmongCandidates ==
    /\ cb.pc = "returned" =>
          \A i \in 1..Len(cb.results) :
              /\ cb.origin[i].how = "llm" =>
                    cb.origin[i].offered =
                        WithSentinel(FindTopN(cat_index.categories, CATEGORY_TOP_N,
                                              RankStart[cb.defects[i]]))
              /\ \/ cb.results[i][1] = NE_OPREDELENO
                 \/ cb.results[i][1] \in Range(cb.origin[i].offered)
    /\ \A key \in DOMAIN classify_cache :
          \/ classify_cache[key].category = NE_OPREDELENO
          \/ classify_cache[key].category \in Range(classify_cache[key].offered)

\* C3 witness: classify_batch has returned a category of the candidates in place
\* of an answer that was none of them, and the sentinel for an item the
\* capability left out
C3_Witness ==
    /\ cb.pc = "returned"
    /\ \E i, j \in 1..Len(cb.defects) :
          /\ cb.origin[i].how = "llm"
          /\ cb.results[i][2] = 50
          /\ cb.results[i][1] \in Range(cb.origin[i].offered) \ {NE_OPREDELENO}
          /\ cb.origin[j].how = "llm"
          /\ cb.origin[j].of = Pad
          /\ cb.results[j] = <<NE_OPREDELENO, 0>>
(***************************************************************************)
(* Properties of expand_rows                                               *)
(***************************************************************************)
\* the i-th input row and its defect list as they were when expand_rows was called
InputRowAt(i) == ex.heap0[ex.rows[i]]

InputDefects(i) == ex.heap0[ex.defects_per_row[i]]

\* the input row the n-th output row was made from, and the n-th output row's columns
InputRow(n) == InputRowAt(ex.result[n].origin.row)

OutputData(n) == heap[ex.result[n].original_data]

\* the output rows made from the i-th input row
RowsFrom(i) == {n \in 1..Len(ex.result) : ex.result[n].origin.row = i}

\* the places of the columns of d whose upper-cased name is name
Named(d, name) == {p \in 1..Len(d) : Upper(d[p][1]) = name}

Last(S) == CHOOSE p \in S : \A q \in S : q <= p

\* the original text of a row: the value of its last column named VALUETEXT
TextOf(d) == IF Named(d, VALUETEXT) = {} THEN None ELSE d[Last(Named(d, VALUETEXT))][2]

\* the fallback-to-original-text policy applies to a row whose text is not blank
FallbackApplies(d) == ~Falsy(TextOf(d)) /\ Strip(TextOf(d)) # <<>>

\* the number of output rows the i-th input row is to contribute
Contribution(i) ==
    IF InputDefects(i) # <<>> THEN Len(InputDefects(i))
    ELSE IF FallbackApplies(InputRowAt(i)) THEN 1 ELSE 0

RECURSIVE SumOfContributions(_)
SumOfContributions(i) == IF i = 0 THEN 0 ELSE SumOfContributions(i - 1) + Contribution(i)

\* C6: when expand_rows returns, the input row with k > 0 defects has contributed
\* exactly k output rows, the input row with no defects has contributed none, or
\* exactly one when the fallback to its original text applies, and the output
\* has the sum of these numbers of rows.
C6_ExpandRowCount ==
    ex.pc = "returned" =>
        /\ \A i \in 1..Len(ex.rows) : Cardinality(RowsFrom(i)) = Contribution(i)
        /\ \A n \in 1..Len(ex.result) : ex.result[n].origin.row \in 1..Len(ex.rows)
        /\ Len(ex.result) = SumOfContributions(Len(ex.rows))

\* C6 witness: expand_rows has returned three rows for a row with two defects
\* and a row without defects whose original text stands in as its one defect.
C6_Witness ==
    /\ ex.pc = "returned"
    /\ Len(ex.rows) = 2
    /\ Len(InputDefects(1)) = 2
    /\ InputDefects(2) = <<>>
    /\ FallbackApplies(InputRowAt(2))
    /\ Cardinality(RowsFrom(1)) = 2
    /\ Cardinality(RowsFrom(2)) = 1
    /\ Len(ex.result) = 3

\* C7: in every row expand_rows produces from an input row with the comment
\* column of the tests, "КОММЕНТАРИЙ", that column holds the output row's
\* defect text, which is its defect_text.
C7_CommentColumnHoldsDefect ==
    ex.pc = "returned" =>
        \A n \in 1..Len(ex.result) :
            DictHas(InputRow(n), k_KOMMENTARIJ) =>
                DictGet(OutputData(n), k_KOMMENTARIJ, None) = ex.result[n].defect_text

\* the columns that are designated to hold the defect text: the defect column
\* and the columns whose upper-cased name is VALUETEXT
DefectDesignated(key, defect_column) == key = defect_column \/ Upper(key) = VALUETEXT

\* C8 as stated: every column of an input row other than the defect-designated
\* ones is in each output row made from it with its original value, whatever
\* its name and text.
C8_EveryColumnPassesThrough ==
    ex.pc = "returned" =>
        \A n \in 1..Len(ex.result) :
            \A p \in 1..Len(InputRow(n)) :
                ~DefectDesignated(InputRow(n)[p][1], ex.defect_column) =>
                    /\ DictHas(OutputData(n), InputRow(n)[p][1])
                    /\ DictGet(OutputData(n), InputRow(n)[p][1], None) = InputRow(n)[p][2]

\* PHOTO_URL_PATTERN matches somewhere in value
HasPhotoUrl(value) == \E i \in 1..Len(value) : PhotoUrlAt(value, i)

\* the p-th column of d is the row's last column named VALUESTRING and its
\* value is null or has a photo URL in it
Cleaned(d, p) ==
    /\ Named(d, VALUESTRING) # {}
    /\ p = Last(Named(d, VALUESTRING))
    /\ (d[p][2] = None \/ HasPhotoUrl(d[p][2]))

\* the columns expand_rows writes to
Written(d, p, defect_column) ==
    \/ DefectDesignated(d[p][1], defect_column)
    \/ d[p][1] = PHOTO_COLUMN_NAME
    \/ Cleaned(d, p)

\* C8: every column of an input row other than the defect-designated ones is in
\* each output row made from it with its original value, but for the "Фото"
\* column and the last column whose upper-cased name is VALUESTRING when its
\* value is null or has a photo URL in it.
C8_OtherColumnsPassThrough ==
    ex.pc = "returned" =>
        \A n \in 1..Len(ex.result) :
            \A p \in 1..Len(InputRow(n)) :
                ~Written(InputRow(n), p, ex.defect_column) =>
                    /\ DictHas(OutputData(n), InputRow(n)[p][1])
                    /\ DictGet(OutputData(n), InputRow(n)[p][1], None) = InputRow(n)[p][2]

\* C8 witness: an output row made from the row with an ID and photo URLs in its
\* valueString has the ID of the input row and the valueString without the URLs.
C8_Witness ==
    /\ ex.pc = "returned"
    /\ \E n \in 1..Len(ex.result) :
          /\ InputRow(n) = row_crm
          /\ DictGet(OutputData(n), k_ID, None) = <<"2">>
          /\ DictGet(OutputData(n), k_valueString, None) = t_place
          /\ DictGet(OutputData(n), k_valueText, None) = ex.result[n].defect_text

\* (row, defect) of a comes before that of b
OriginBefore(a, b) == a.row < b.row \/ (a.row = b.row /\ a.defect < b.defect)

\* C9: the output of expand_rows is in the order of the input rows and, within
\* one input row, in the order of its defect list: an earlier output row is made
\* from an earlier input row, or from the same row and an earlier defect, and
\* each output row carries the defect at its place in its row's list and the ID
\* of its input row.
C9_OutputOrder ==
    ex.pc = "returned" =>
        /\ \A m, n \in 1..Len(ex.result) :
              m < n => OriginBefore(ex.result[m].origin, ex.result[n].origin)
        /\ \A n \in 1..Len(ex.result) :
              /\ ex.result[n].origin.row \in 1..Len(ex.rows)
              /\ InputDefects(ex.result[n].origin.row) # <<>> =>
                    /\ ex.result[n].origin.defect
                           \in 1..Len(InputDefects(ex.result[n].origin.row))
                    /\ ex.result[n].defect_text =
                           InputDefects(ex.result[n].origin.row)[ex.result[n].origin.defect]
              /\ DictHas(InputRow(n), k_ID) =>
                    DictGet(OutputData(n), k_ID, None) = DictGet(InputRow(n), k_ID, None)

\* C9 witness: expand_rows has returned the two defects of the first row in
\* list order and then the defect of the second row, each with its row's ID.
C9_Witness ==
    /\ ex.pc = "returned"
    /\ Len(ex.result) = 3
    /\ InputDefects(1) = <<d_skol, d_potek>>
    /\ InputDefects(2) = <<d_potek>>
    /\ ex.result[1].defect_text = d_skol
    /\ ex.result[2].defect_text = d_potek
    /\ ex.result[3].defect_text = d_potek
    /\ DictGet(OutputData(1), k_ID, None) = <<"2">>
    /\ DictGet(OutputData(2), k_ID, None) = <<"2">>
    /\ DictGet(OutputData(3), k_ID, None) = <<"1">>

\* C10: after expand_rows has returned or raised, every input row and every
\* input defect list has the items it had when expand_rows was called.
C10_InputsNotModified ==
    ex.pc \in {"returned", "raised"} =>
        /\ Len(heap) >= Len(ex.heap0)
        /\ \A r \in 1..Len(ex.heap0) : heap[r] = ex.heap0[r]

\* C10 witness: expand_rows has returned a row whose valueText is overwritten
\* and which has the added columns, and its input row is as it was.
C10_Witness ==
    /\ ex.pc = "returned"
    /\ \E n \in 1..Len(ex.result) :
          /\ InputRow(n) = row_crm
          /\ heap[ex.rows[ex.result[n].origin.row]] = row_crm
          /\ DictGet(OutputData(n), k_valueText, None) # t_comment
          /\ DictHas(OutputData(n), DEFECT_COLUMN_NAME)
          /\ DictHas(OutputData(n), PHOTO_COLUMN_NAME)

\* C11: expand_rows raises ValueError, and produces no output row, exactly when
\* rows and defects_per_row differ in length; with equal lengths it returns, and
\* for two empty lists it returns the empty list.
C11_MismatchRaises ==
    ex.pc # "idle" =>
        /\ (Len(ex.rows) # Len(ex.defects_per_row)) =>
              /\ ex.pc = "raised"
              /\ ex.error = <<"ValueError">>
              /\ ex.result = <<>>
        /\ (Len(ex.rows) = Len(ex.defects_per_row)) =>
              /\ ex.pc = "returned"
              /\ ex.error = None
        /\ (ex.rows = <<>> /\ ex.defects_per_row = <<>>) => ex.result = <<>>

\* C11 witness: expand_rows has raised ValueError for one row and two defect
\* lists.
C11_Witness ==
    /\ ex.pc = "raised"
    /\ Len(ex.rows) = 1
    /\ Len(ex.defects_per_row) = 2
    /\ ex.error = <<"ValueError">>
    /\ ex.result = <<>>

(***************************************************************************)
(* Properties of the parsers of LLMClient                                  *)
(***************************************************************************)
\* the smaller of the number of items of the response and expected_count
Returned(frame) ==
    IF Len(ResultsOf(frame.data)) < frame.expected_count
    THEN Len(ResultsOf(frame.data))
    ELSE frame.expected_count

\* a response the parser takes: its "results" is an array or is missing, and,
\* for classify, each item that is not dropped is an object whose "chosen" is
\* a string or is missing
Parseable(frame) ==
    /\ frame.data.kind # "null"
    /\ frame.fn = "_parse_classify_response" =>
          \A p \in 1..Returned(frame) : ~ClassifyItemRaises(frame.data.items[p])

\* the result at place p is made of the p-th item of the response
FromItem(frame, p) ==
    /\ frame.results[p].answers = Places(frame.expected_count)[p]
    /\ IF frame.fn = "_parse_split_response"
       THEN frame.results[p].defects
                = UniqueDefects(CoerceSplitItem(frame.data.items[p]), <<>>)
       ELSE frame.results[p].chosen = ChosenOf(frame.data.items[p])

\* the result at place p is the sentinel
IsSentinel(frame, p) ==
    /\ frame.results[p].answers = Pad
    /\ IF frame.fn = "_parse_split_response"
       THEN frame.results[p].defects = <<>>
       ELSE frame.results[p].chosen = NE_OPREDELENO

\* C12: for every parseable response and every expected_count the parsers
\* return, without raising, exactly expected_count results: the first
\* min(returned, expected_count) are made of the response's items at the same
\* places, the missing ones are the sentinel, and the excess items are dropped.
C12_ParsersPadAndTruncate ==
    (lc.pc \in {"returned", "raised"} /\ Parseable(lc)) =>
        /\ lc.pc = "returned"
        /\ Len(lc.results) = lc.expected_count
        /\ \A p \in 1..Len(lc.results) :
              IF p <= Returned(lc) THEN FromItem(lc, p) ELSE IsSentinel(lc, p)

\* C12 witness: _parse_classify_response has returned two results for a response
\* of one item, the second being the sentinel.
C12_Witness ==
    /\ lc.pc = "returned"
    /\ lc.fn = "_parse_classify_response"
    /\ lc.expected_count = 2
    /\ lc.data = DataList(<<cat_pyatna>>)
    /\ Len(lc.results) = 2
    /\ lc.results[1].chosen = cat_pyatna
    /\ lc.results[2].chosen = NE_OPREDELENO

RECURSIVE ObjectEnd(_, _, _, _)
\* the place of the brace that closes the JSON object being read at i with
\* depth braces open, or 0 when none does: a string runs to the next quote that
\* no backslash escapes, and the braces in a string are not counted
ObjectEnd(s, i, depth, in_string) ==
    IF i > Len(s) THEN 0
    ELSE IF in_string
    THEN IF s[i] = "\\" THEN ObjectEnd(s, i + 2, depth, TRUE)
         ELSE ObjectEnd(s, i + 1, depth, s[i] # "\"")
    ELSE IF s[i] = "\"" THEN ObjectEnd(s, i + 1, depth, TRUE)
    ELSE IF s[i] = "{" THEN ObjectEnd(s, i + 1, depth + 1, FALSE)
    ELSE IF s[i] = "}"
    THEN IF depth = 1 THEN i ELSE ObjectEnd(s, i + 1, depth - 1, FALSE)
    ELSE ObjectEnd(s, i + 1, depth, FALSE)

\* the text has a balanced object in it
ContainsObject(text) ==
    \E i \in 1..Len(text) : text[i] = "{" /\ ObjectEnd(text, i, 0, FALSE) # 0

\* s is one balanced object: the brace that opens it is closed by its last
\* character and not before
SingleBalancedObject(s) ==
    /\ s # <<>>
    /\ s[1] = "{"
    /\ ObjectEnd(s, 1, 0, FALSE) = Len(s)

\* C13: whenever the response text has a JSON object in it, with or without
\* prose or markdown fencing around it, _extract_json_from_text returns one
\* balanced JSON object, never a span with unbalanced braces or one that covers
\* several separate objects.
C13_ExtractsOneBalancedObject ==
    (lc.pc = "returned" /\ lc.fn = "_extract_json_from_text" /\ ContainsObject(lc.text)) =>
        SingleBalancedObject(lc.json_str)

\* the result at a place of all_results is set and answers the defect at that
\* place of defects_with_candidates, or stands in for an answer that was missing
AnswersPlace(all_results, defects_with_candidates, k) ==
    /\ all_results[k] # NoResult
    /\ all_results[k].answers \in {defects_with_candidates[k].defect, Pad}

\* C14: classify_defects puts the results in the order of its input in whatever
\* order the tasks of a group are done: the list it returns has a result at
\* every place, which is that of the defect at that place of the input, and
\* while it waits for a group the places of the groups before are so filled and
\* the other places are not set.
C14_ClassifyDefectsInInputOrder ==
    /\ cb.pc = "await_api" =>
          /\ Len(cb.all_results) = Len(cb.with_candidates)
          /\ \A k \in 1..Len(cb.all_results) :
                IF (k - 1) \div CLASSIFY_BATCH_SIZE < cb.i
                THEN AnswersPlace(cb.all_results, cb.with_candidates, k)
                ELSE cb.all_results[k] = NoResult
    /\ cb.pc = "returned" =>
          /\ Len(cb.llm_call.all_results) = Len(cb.llm_call.defects_with_candidates)
          /\ \A k \in 1..Len(cb.llm_call.all_results) :
                AnswersPlace(cb.llm_call.all_results, cb.llm_call.defects_with_candidates, k)

\* C14 witness: classify_defects has returned the results of two different
\* defects in the order of the defects, the task of the second batch having
\* been done before that of the first.
C14_Witness ==
    /\ cb.pc = "returned"
    /\ Len(cb.llm_call.all_results) >= 2
    /\ SubSeq(cb.llm_call.completed, 1, 2) = <<1, 0>>
    /\ cb.llm_call.defects_with_candidates[1].defect
           # cb.llm_call.defects_with_candidates[2].defect
    /\ cb.llm_call.all_results[1].answers = cb.llm_call.defects_with_candidates[1].defect
    /\ cb.llm_call.all_results[2].answers = cb.llm_call.defects_with_candidates[2].defect

(***************************************************************************)
(* Properties of the jobs                                                  *)
(***************************************************************************)
\* the number of batches of the phase of the failed call whose results the run
\* still holds, in a list of the phase or in what the phase returned to it
KeptBatches(frame) ==
    IF frame.failed_call.phase = "split"
    THEN Len(frame.all_results) + Len(frame.defects_per_row.batches)
    ELSE Cardinality(frame.placed \cup frame.done \cup frame.categories.batches)

\* C15 as stated: once a call of the capability has raised in the split or the
\* classify phase, the batches whose calls had returned keep their results and
\* the run as a whole is not failed.
C15_OnlyBatchInFlightFails ==
    run.failed_call.phase # "" =>
        /\ KeptBatches(run) = run.failed_call.done_before
        /\ jobs_storage.status # "failed"

\* C15: once a call of the capability has raised in the split or the classify
\* phase, the whole phase has failed with it: the exception has left
\* split_batch or classify_batch, the results of the batches whose calls had
\* returned are dropped, nothing of the phase is returned to the run, and the
\* run as a whole is failed, its record being FAILED with an error text.
C15_CallErrorFailsRun ==
    run.failed_call.phase # "" =>
        /\ KeptBatches(run) = 0
        /\ run.failed_call.phase = "split" => ~run.defects_per_row.assigned
        /\ ~run.categories.assigned
        /\ run.pc \in {"close", "ended"}
        /\ jobs_storage.status = "failed"
        /\ ~Falsy(jobs_storage.error)

\* C15 witness: a call of the classify phase has raised after the calls of two
\* batches had returned, and the record of the job is FAILED.
C15_Witness ==
    /\ run.failed_call.phase = "classify"
    /\ run.failed_call.done_before = 2
    /\ run.defects_per_row.assigned
    /\ jobs_storage.status = "failed"
    /\ jobs_storage.error = ErrorText("LLMAPIError")

\* the steps of a run that the try block covers
RunSteps == {"init", "read", "split", "classify", "write"}

\* C16: once a step of the processing of a job has raised, the record of the
\* job is FAILED with an error text that is not empty, and stays so to the end
\* of the run; and the record is COMPLETED only after write_result has returned
\* with the file written: no record is COMPLETED while the file is partly
\* written or write_result has raised.
C16_RaiseEndsFailed ==
    /\ (\E p \in 1..Len(run.raised) : run.raised[p] \in RunSteps) =>
          /\ jobs_storage.status = "failed"
          /\ ~Falsy(jobs_storage.error)
    /\ jobs_storage.status = "completed" =>
          /\ run.pc \in {"close", "ended"}
          /\ result_file # "partial"
          /\ \A p \in 1..Len(run.raised) : run.raised[p] = "close"
          /\ jobs_storage.output_file = OutputPath

\* C16 witness: the run of the worker has ended after write_result raised with
\* a part of the file written, and the record is FAILED with its error text.
C16_Witness ==
    /\ run.pc = "ended"
    /\ run.host = "worker"
    /\ run.raised = <<"write">>
    /\ run.categories.assigned
    /\ result_file = "partial"
    /\ jobs_storage.status = "failed"
    /\ jobs_storage.error = ErrorText("ExcelWriterError")

\* C17: the download endpoint serves the file only for a job whose record it
\* read as COMPLETED: it answers 400 for a record with another status and 404
\* for a job id without a record; and the status endpoint gives a download URL
\* only for a record that is COMPLETED and names its output file, and answers
\* 404 for a job id without a record.
C17_DownloadOnlyWhenCompleted ==
    /\ http.endpoint = "download_result" =>
          /\ http.served => http.seen.present /\ http.seen.status = "completed"
          /\ (http.seen.present /\ http.seen.status # "completed") => http.code = 400
          /\ ~http.seen.present => http.code = 404
          /\ http.served <=> http.code = 200
    /\ http.endpoint = "get_job_status" =>
          /\ http.download_url # None =>
                /\ http.seen.present
                /\ http.seen.status = "completed"
                /\ ~Falsy(http.seen.output_file)
          /\ ~http.seen.present => http.code = 404

\* C17 witness: the download endpoint has answered 400 for a job that was
\* COMPLETED and then FAILED when the client could not be closed, its output
\* file being recorded and written.
C17_Witness ==
    /\ http.endpoint = "download_result"
    /\ http.job_id = "job"
    /\ http.code = 400
    /\ http.seen.status = "failed"
    /\ http.seen.output_file = OutputPath
    /\ http.file_seen = "written"

(***************************************************************************)
(* Properties of the CategoryIndex                                         *)
(***************************************************************************)
\* the categories a load of the file the method was called on yields
SourceCategories == CellsToCategories(ixc.src.cells, 1, <<>>)

\* C18: check_and_rebuild on a file that is there and can be read reloads the
\* categories, rebuilds the index and returns true whenever the modification
\* time of the file differs from the one recorded at the last load, or nothing
\* was loaded yet; when the modification time is the recorded one it returns
\* false and leaves the loaded categories and the recorded time as they were.
C18_RebuildsWhenMtimeDiffers ==
    (ixc.fn = "check_and_rebuild" /\ ixc.src.exists /\ ixc.src.readable) =>
        IF ixc.before.file_mtime = NoMtime \/ ixc.src.mtime # ixc.before.file_mtime
        THEN /\ ixc.pc = "returned"
             /\ ixc.returned
             /\ category_index.categories = SourceCategories
             /\ category_index.file_mtime = ixc.src.mtime
             /\ category_index.index_built
        ELSE /\ ixc.pc = "returned"
             /\ ~ixc.returned
             /\ category_index.categories = ixc.before.categories
             /\ category_index.file_mtime = ixc.before.file_mtime

\* find_top_n raises CategoryIndexError exactly when no build_index has
\* returned on the index before the call
RaisesUntilBuilt ==
    ixc.fn = "find_top_n" =>
        ((ixc.pc = "raised" /\ ixc.error = "CategoryIndexError") <=> ~ixc.before.built_once)

\* C19 as stated: find_top_n raises CategoryIndexError in every state in which
\* no build_index has returned on the index, never after one has, and a second
\* build_index leaves the loaded categories unchanged.
C19_SecondBuildKeepsCategories ==
    /\ RaisesUntilBuilt
    /\ (ixc.fn = "build_index" /\ ixc.before.built_once) =>
           category_index.categories = ixc.before.categories

\* C19: find_top_n raises CategoryIndexError in every state in which no
\* build_index has returned on the index, never after one has, and a second
\* build_index leaves the loaded categories unchanged when at least one
\* category is loaded; with none loaded it loads the file again.
C19_SecondBuildKeepsLoadedCategories ==
    /\ RaisesUntilBuilt
    /\ (ixc.fn = "build_index" /\ ixc.before.built_once) =>
           IF ixc.before.categories # <<>>
           THEN /\ ixc.pc = "returned"
                /\ category_index.categories = ixc.before.categories
           ELSE IF ixc.src.exists /\ ixc.src.readable
           THEN /\ ixc.pc = "returned"
                /\ category_index.categories = SourceCategories
           ELSE /\ ixc.pc = "raised"
                /\ category_index.categories = <<>>

\* C19 witness: a second build_index has returned on an index with loaded
\* categories after the file got other categories, and the loaded ones are
\* as they were.
C19_Witness ==
    /\ ixc.fn = "build_index"
    /\ ixc.pc = "returned"
    /\ ixc.before.built_once
    /\ ixc.before.categories = <<cat_skoly, cat_pyatna, cat_prochee>>
    /\ ixc.src.exists
    /\ ixc.src.readable
    /\ SourceCategories = <<cat_pyatna, cat_skoly>>
    /\ category_index.categories = <<cat_skoly, cat_pyatna, cat_prochee>>

\* C20: find_top_n with an empty or whitespace-only text and a count n on a
\* built index returns, without error, the first min(n, number of categories)
\* categories in the order of the file.
C20_BlankTextReturnsFirstN ==
    (/\ ixc.fn = "find_top_n"
     /\ ixc.before.index_built
     /\ (ixc.text = <<>> \/ Strip(ixc.text) = <<>>)) =>
        /\ ixc.pc = "returned"
        /\ Len(ixc.result) = Min({ixc.n, Len(ixc.before.categories)})
        /\ \A k \in 1..Len(ixc.result) : ixc.result[k] = ixc.before.categories[k]

\* C20 witness: find_top_n(" ", 2) has returned the first two of three
\* categories.
C20_Witness ==
    /\ ixc.fn = "find_top_n"
    /\ ixc.pc = "returned"
    /\ ixc.text = d_blank
    /\ ixc.n = 2
    /\ ixc.before.index_built
    /\ ixc.before.categories = <<cat_skoly, cat_pyatna, cat_prochee>>
    /\ ixc.result = <<cat_skoly, cat_pyatna>>

(***************************************************************************)
(* Properties of _clean_defect_text                                        *)
(***************************************************************************)
\* C21: _clean_defect_text removes a leading numeral of 1 to 3 digits that is
\* followed by ".", ")" or whitespace; a numeral of 1 to 3 digits glued to a
\* word is removed only when the word starts with an uppercase letter and has
\* more than 5 characters, so that a numeral glued to a lowercase letter is
\* left in place; a numeral of four digits is left in place.
C21_NumeralStripping ==
    (cd.pc = "returned" /\ cd.numeral # <<>>) =>
        IF Len(cd.numeral) > 3
        THEN cd.result = Strip(cd.text)
        ELSE IF cd.separator # <<>>
        THEN cd.result = cd.word
        ELSE IF cd.word[1] \in LatUpper \cup CyrUpper /\ Len(cd.word) > 5
        THEN cd.result = cd.word
        ELSE cd.result = cd.numeral \o cd.word

(***************************************************************************)
(* Properties of the batching and caching of split_batch and classify_batch *)
(***************************************************************************)
\* the places of the requests of the split_batch call that hold the text c
SentPlaces(c) ==
    {rp \in (1..Len(sb.requests)) \X (1..MaxComments) :
        rp[2] <= Len(sb.requests[rp[1]]) /\ sb.requests[rp[1]][rp[2]] = c}

\* C22: a string that is not cached and occurs more than once in the comments
\* of one split_batch call is in the requests to the capability at most once,
\* and when the call returns all its occurrences have the same result, which is
\* the value the cache holds for it.
C22_DuplicatesSentOnce ==
    /\ \A c \in Comments : Cardinality(SentPlaces(c)) <= 1
    /\ sb.pc = "returned" =>
          \A i, j \in 1..Len(sb.comments) :
              (sb.comments[i] = sb.comments[j] /\ sb.origin[i].how \in {"llm", "local"}) =>
                  /\ sb.results[i] = sb.results[j]
                  /\ split_cache[ComputeHash(sb.comments[i])] = sb.results[i]

\* C23: when the capability returns fewer split results than the comments of
\* the request, split_batch gives each comment without a returned result the
\* defect list _local_split_by_numbers makes of that comment.
C23_ShortfallSplitLocally ==
    sb.pc = "returned" =>
        \A i \in 1..Len(sb.comments) :
            (sb.origin[i].how = "local" \/ (sb.origin[i].how = "llm" /\ sb.origin[i].of = Pad)) =>
                sb.results[i] = LocalSplitByNumbers(sb.comments[i])

\* a defect text as the specification describes one: not empty, trimmed, longer
\* than 3 characters and not a bare number
IsPlausibleDefect(d) ==
    /\ d # <<>>
    /\ Strip(d) = d
    /\ Len(d) > MinDefectLen
    /\ ~IsDigitStr(d)

\* C27: every defect string of every list split_batch returns for a comment
\* that was not cached is non-empty, trimmed, longer than 3 characters and not
\* purely numeric, whether the list is the validated answer of the capability
\* or the local split taken after an empty or an all-identical answer.
C27_ReturnedDefectsPlausible ==
    sb.pc = "returned" =>
        \A i \in 1..Len(sb.comments) :
            sb.origin[i].how \in {"llm", "local"} =>
                \A k \in 1..Len(sb.results[i]) : IsPlausibleDefect(sb.results[i][k])

\* as coded: the answer of the capability is filtered, the local split is
\* returned as _local_split_by_numbers made it
ReturnedDefectsValidOrLocal ==
    sb.pc = "returned" =>
        \A i \in 1..Len(sb.comments) :
            sb.origin[i].how \in {"llm", "local"} =>
                \/ \A k \in 1..Len(sb.results[i]) : IsPlausibleDefect(sb.results[i][k])
                \/ sb.results[i] = LocalSplitByNumbers(sb.comments[i])

\* the record of the job is COMPLETED or FAILED
JobIsTerminal == jobs_storage.status \in {"completed", "failed"}

\* the step is the finally clause raising in a run of the API, which
\* run_process_job catches
CloseRaisesInApi ==
    /\ run.pc = "close"
    /\ run.host = "api"
    /\ run'.pc = "ended"
    /\ Len(run'.raised) > Len(run.raised)

\* C28: COMPLETED and FAILED are terminal: once the status of the record of a
\* job is COMPLETED or FAILED, no later step of its processing, the closing of
\* the client and the background wrapper included, changes its status,
\* progress, output_file or error.
C28_TerminalStatusesStay ==
    [][JobIsTerminal => jobs_storage' = jobs_storage]_vars

\* as coded: the record of a COMPLETED or FAILED job changes only when
\* llm_client.close() raises in a run of the API
TerminalUntilCloseRaises ==
    [][(JobIsTerminal /\ ~CloseRaisesInApi) => jobs_storage' = jobs_storage]_vars

\* C29: when split_batch or classify_batch raises because a call of the
\* capability or the parsing of its answer failed, the cache of the service
\* holds exactly the entries it held before the call, though earlier batches
\* of the call had returned: no step of a call that is still awaiting the
\* capability, or that raises, changes the cache.
C29_RaiseLeavesCacheAsItWas ==
    [][/\ sb'.pc \in {"await_api", "raised"} => split_cache' = split_cache
       /\ cb'.pc \in {"await_api", "raised"} => classify_cache' = classify_cache]_vars

\* C29 witness: split_batch has raised on the failure of its second request,
\* the first one having been answered, and the cache holds what an earlier
\* call stored and nothing of this call.
C29_Witness ==
    /\ sb.pc = "raised"
    /\ sb.error \in {"LLMAPIError", "LLMResponseParseError"}
    /\ Len(sb.requests) = 2
    /\ DOMAIN split_cache = {ComputeHash(c_short)}
    /\ \E i \in 1..Len(sb.comments) : sb.comments[i] = c_list

\* the statuses of a job that succeeds, each with the one that follows it
StatusOrder ==
    { <<"", "pending">>, <<"pending", "splitting">>, <<"splitting", "classifying">>,
      <<"classifying", "completed">> }

\* the read, split and classify steps of the run have succeeded, and the
\* input had a row with defects
ClassifiedWithDefects ==
    /\ run.to_process >= 1
    /\ run.categories.assigned
    /\ \A p \in 1..Len(run.raised) : run.raised[p] \notin {"init", "read", "split", "classify"}

\* the record is COMPLETED with progress 100 and the output file
CompletedRecord ==
    /\ jobs_storage.status = "completed"
    /\ jobs_storage.progress = 100
    /\ jobs_storage.output_file = OutputPath

\* every created job comes to COMPLETED or FAILED
JobsEnd == (run.pc # "none") ~> JobIsTerminal

\* C30: with every external step returning or raising in the end, every
\* created job comes to COMPLETED or FAILED and does not stay PENDING,
\* SPLITTING or CLASSIFYING for ever; and a job with a row with defects whose
\* read, split and classify steps succeed comes to COMPLETED with progress 100
\* and its output file (the record its run ends on, when closing the client
\* does not raise), its statuses following each other only in the order
\* PENDING, SPLITTING, CLASSIFYING, COMPLETED.
C30_JobsEndAndSucceedInOrder ==
    /\ JobsEnd
    /\ [](/\ run.pc = "ended"
          /\ ClassifiedWithDefects
          /\ \A p \in 1..Len(run.raised) : run.raised[p] # "close"
          => CompletedRecord)
    /\ [][(/\ jobs_storage'.status # jobs_storage.status
           /\ run'.raised = <<>>
           /\ run'.rows >= 1)
          => <<jobs_storage.status, jobs_storage'.status>> \in StatusOrder]_vars

\* as coded: the run of a job with classified rows never writes its file, and
\* ends FAILED
ClassifiedJobsEndFailed ==
    (run.pc \in {"close", "ended"} /\ ClassifiedWithDefects) =>
        /\ jobs_storage.status = "failed"
        /\ result_file = "absent"

\* C24: a pair classify_batch made by replacing an invalid answer of the
\* capability by a fallback match has a capped confidence: at most 50 when the
\* token_set_ratio match is taken, at most 40 when the WRatio match is taken,
\* 20 for the first candidate; it is never higher than the confidence of a
\* category other than the sentinel that was accepted as the capability
\* answered it; and the sentinel always has confidence 0.
C24_FallbackConfidenceCapped ==
    cb.pc = "returned" =>
        \A i \in 1..Len(cb.results) :
            /\ cb.results[i][1] = NE_OPREDELENO => cb.results[i][2] = 0
            /\ (cb.origin[i].fallback /\ cb.results[i][1] # NE_OPREDELENO) =>
                  /\ cb.results[i][2] <= 50
                  /\ ExtractOne(cb.defects[i], ValidCandidates(cb.origin[i].offered),
                                "token_set_ratio")[2] <= 30 =>
                        /\ cb.results[i][2] <= 40
                        /\ ExtractOne(cb.defects[i], ValidCandidates(cb.origin[i].offered),
                                      "WRatio")[2] <= 30 => cb.results[i][2] = 20
                  /\ \A j \in 1..Len(cb.results) :
                        (/\ cb.origin[j].how = "llm"
                         /\ ~cb.origin[j].fallback
                         /\ cb.origin[j].of # Pad
                         /\ cb.results[j][1] # NE_OPREDELENO) =>
                            cb.results[i][2] <= cb.results[j][2]

(***************************************************************************)
(* Properties of the rows of a job                                         *)
(***************************************************************************)
\* C25: once classify_batch has returned to the run of a job, and until the
\* rows are written, every expanded row has been assigned to exactly once, the
\* category of the row at position i is the category name of the pair at
\* position i that classify_batch returned, a string, and its confidence is the
\* confidence of that pair.
C25_RowsHoldCategoryAndConfidence ==
    (run.pc \in {"write", "written"} /\ run.categories.assigned) =>
        /\ Len(run.categories.pairs) = Len(run.expanded_rows)
        /\ \A i \in 1..Len(run.expanded_rows) :
              /\ run.expanded_rows[i].writes = 1
              /\ run.expanded_rows[i].category.type = "str"
              /\ run.expanded_rows[i].category.val = run.categories.pairs[i][1]
              /\ run.expanded_rows[i].confidence.type = "int"
              /\ run.expanded_rows[i].confidence.val = run.categories.pairs[i][2]

\* the texts of the requests of the split_batch call, one after the other
RECURSIVE RequestTexts(_)
RequestTexts(requests) ==
    IF requests = <<>> THEN <<>> ELSE Head(requests) \o RequestTexts(Tail(requests))

\* the comments of the call that are neither empty nor cached, in their order
RECURSIVE UncachedFrom(_)
UncachedFrom(i) ==
    IF i > Len(sb.comments) THEN <<>>
    ELSE (IF sb.origin[i].how \in {"llm", "local"} THEN <<sb.comments[i]>> ELSE <<>>)
         \o UncachedFrom(i + 1)

\* C26: every request to the capability on behalf of a SplitService has at
\* most the batch_size of that SplitService items (the argument of the
\* constructor, or the setting without one), and the requests of a split_batch
\* call that has returned are consecutive batches of its uncached comments
\* that together hold each of them once.
C26_RequestsWithinBatchSize ==
    /\ \A r \in 1..Len(sb.requests) : Len(sb.requests[r]) <= split_service.batch_size
    /\ sb.pc = "returned" => RequestTexts(sb.requests) = UncachedFrom(1)

=============================================================================
